---- MODULE Spec2Model ----
(***************************************************************************)
(* Session lifecycle of the Bridge402 client SDK: Bridge402Client           *)
(* (start / handleMessage / extendSessionWithRetry / handleClose / stop)    *)
(* on top of WebSocketManager (connect / updateToken / disconnect).         *)
(*                                                                         *)
(* Every await of the JavaScript code is a point where the event loop may  *)
(* run another callback, so each async function is cut at its awaits: the  *)
(* code between two awaits is one atomic action.                           *)
(***************************************************************************)
EXTENDS Naturals, Integers, Sequences, FiniteSets, TLC

(***************************************************************************)
(* Bounds of the model.                                                    *)
(***************************************************************************)
\* start() calls made by the application over a run
MaxStarts == 2
\* expiry warnings that begin a renewal cycle over a run
MaxCycles == 2
\* stop() calls made by the application over a run
MaxStops == 1
\* largest configured retryAttempts
MaxRetry == 4
\* start() calls and renewal cycles together over a run
MaxAsync == 3
\* the same, in the runs that follow one start() and one renewal cycle
MaxSolo == 2

(***************************************************************************)
(* Program constants.                                                      *)
(***************************************************************************)
\* let retryDelay = 1000
BaseDelay == 1000
\* options.retryAttempts || 3
DefaultRetryAttempts == 3
\* status of a response that carries an invoice
InvoiceStatus == 402
\* status of a response to an accepted payment
PaidStatus == 200

\* HTTP statuses the server may answer with; 0 stands for a request that throws
Statuses == {0, 200, 402, 500}
\* parsed frames the stream may deliver
MsgKinds == {"expiry_soon", "session_extended", "connected", "content"}
\* ws readyState values; "ABORTING" stands for the CLOSING state of a socket
\* whose handshake never completed, which never delivers a frame
ReadyStates == {"CONNECTING", "OPEN", "CLOSING", "ABORTING", "CLOSED"}

VARIABLES
    retryAttempts,  \* this.retryAttempts
    autoRenew,      \* this.autoRenew
    wallet,         \* this.wallet is set (and with it this.paymentManager)
    isRunning,      \* this.isRunning
    currentToken,   \* this.currentToken, 0 for null
    wsManager,      \* this.wsManager: index of the manager, 0 for null
    managers,       \* the WebSocketManager objects: accessToken, ws (0 for null)
    sockets,        \* every WebSocket created: owner, token in its URL, readyState
    starts,         \* the start() invocations and where each is suspended
    cycles,         \* the extendSessionWithRetry() invocations and their locals
    nextToken,      \* access tokens handed out by the server so far
    stops,          \* stop() calls so far
    emitted,        \* events passed to Bridge402Client.emit by the last step
    stopInflight,   \* history: the last stop() interrupted a start or a renewal
    budget,         \* start() calls and renewal cycles the run may begin
    wsEmitted,      \* events passed to WebSocketManager.emit by the last step
    setup,          \* options and environment of the paid operations
    flow,           \* the paid operation in progress, followed await by await
    reqs,           \* requests the paid operation in progress has issued
    eventHandlers,  \* this.eventHandlers: the handlers registered per event
    delivered,      \* history: the handler calls of the last emit(), in order
    batch,          \* the batchExtract() invocation and its locals
    webhook,        \* this.webhook and this.formatter
    forwards,       \* the forwardToWebhook() invocations and where each stands
    received        \* the parsed message handleMessage() was last called with

vars == <<retryAttempts, autoRenew, wallet, isRunning, currentToken, wsManager,
          managers, sockets, starts, cycles, nextToken, stops, emitted,
          stopInflight, budget, wsEmitted, setup, flow, reqs, eventHandlers,
          delivered, batch, webhook, forwards, received>>

\* what a message handler leaves alone
settings == <<retryAttempts, autoRenew, wallet, budget, setup, flow, reqs,
              eventHandlers, delivered, batch, webhook>>
options == <<settings, received>>

\* what the actions of the session lifecycle leave alone
config == <<options, forwards>>

StartIds == 1..MaxStarts
CycleIds == 1..MaxCycles

\* start() calls and renewal cycles begun so far
Begun == Cardinality({i \in StartIds : starts[i] # "idle"})
         + Cardinality({c \in CycleIds : cycles[c].pc # "idle"})

(***************************************************************************)
(* Bridge402Client constructor                                             *)
(***************************************************************************)
\* this.retryAttempts = options.retryAttempts || 3 : 0 (and undefined) give 3
RetryOption(n) == IF n = 0 THEN DefaultRetryAttempts ELSE n

NoCycle == [pc |-> "idle", attempt |-> 0, retryDelay |-> 0, extended |-> FALSE,
            tries |-> 0, failedEmits |-> 0, waits |-> <<>>,
            activeAtRenew |-> FALSE, torn |-> 0, afterFailed |-> FALSE,
            classes |-> <<>>]

\* events the applications of the examples listen to
Events == {"message", "error"}

\* this.eventHandlers = {}
NoHandlers == [e \in Events |-> <<>>]

\* no emit() has run: no handler was called, nothing was thrown
NoDelivery ==
    [event |-> "none", registered |-> <<>>, calls |-> <<>>, thrown |-> FALSE]

\* batchExtract() has not been called
NoBatch == [pc |-> "idle", type |-> "none", urls |-> <<>>, i |-> 0,
            results |-> <<>>]

\* options.webhook and options.formatter are not given
NoWebhook == [url |-> "none", formatter |-> "none"]

\* a parsed frame: its type and status fields ("none" when absent) and
\* whether it has a body and a source field
\* its seconds_remaining field is 0 when absent
Messages ==
    {m \in [type : {"none", "expiry_soon", "session_extended"},
            status : {"none", "connected"}, body : BOOLEAN, source : BOOLEAN,
            seconds_remaining : {0, 30, 60}] :
        m.seconds_remaining # 0 <=> m.type = "expiry_soon"}

\* no message has been handled yet; payload is the secondsRemaining the
\* client has emitted for the message, 0 when it emitted none
NoMessage == [type |-> "none", status |-> "none", body |-> FALSE,
              source |-> FALSE, seconds_remaining |-> 0, handled |-> FALSE,
              payload |-> 0]

\* values the application may give the autoRenew option ("undefined": none)
AutoRenewValues == {"undefined", "true", "false", "0", "null"}

\* this.autoRenew = options.autoRenew !== false
AutoRenewOption(v) == v # "false"

Constructed ==
    /\ eventHandlers = NoHandlers
    /\ delivered = NoDelivery
    /\ batch = NoBatch
    /\ forwards = <<>>
    /\ received = NoMessage
    /\ retryAttempts \in {RetryOption(n) : n \in 0..MaxRetry}
    /\ autoRenew \in {AutoRenewOption(v) : v \in AutoRenewValues}
    /\ wallet \in BOOLEAN
    /\ isRunning = FALSE
    /\ currentToken = 0
    /\ wsManager = 0
    /\ managers = [m \in StartIds |-> [made |-> FALSE, accessToken |-> 0, ws |-> 0]]
    /\ sockets = <<>>
    /\ starts = [i \in StartIds |-> "idle"]
    /\ cycles = [c \in CycleIds |-> NoCycle]
    /\ nextToken = 0
    /\ stops = 0
    /\ emitted = <<>>
    /\ stopInflight = FALSE
    /\ wsEmitted = <<>>

\* no paid operation is followed in detail
NoFlow == [pc |-> "idle"]

Unfollowed ==
    /\ webhook = NoWebhook
    /\ setup = [followed |-> FALSE]
    /\ flow = NoFlow
    /\ reqs = <<>>

Init == Constructed /\ Unfollowed /\ budget = MaxAsync

InitSolo == Constructed /\ Unfollowed /\ budget = MaxSolo

(***************************************************************************)
(* WebSocketManager.  W is the pair of the managers and the sockets.       *)
(***************************************************************************)
W == [managers |-> managers, sockets |-> sockets]

\* ws.close(): starts the closing handshake; the socket's handlers stay attached
wsClose(readyState) ==
    IF readyState = "OPEN" THEN "CLOSING"
    ELSE IF readyState = "CONNECTING" THEN "ABORTING"
    ELSE readyState

\* connect(): this.ws = new WebSocket(url with this.accessToken)
connect(w, m) ==
    [managers |-> [w.managers EXCEPT ![m].ws = Len(w.sockets) + 1],
     sockets  |-> Append(w.sockets, [mgr |-> m,
                                     token |-> w.managers[m].accessToken,
                                     readyState |-> "CONNECTING"])]

\* disconnect(): if (this.ws) { this.ws.close(); this.ws = null }
disconnect(w, m) ==
    LET s == w.managers[m].ws IN
    IF s # 0
    THEN [managers |-> [w.managers EXCEPT ![m].ws = 0],
          sockets  |-> [w.sockets EXCEPT ![s].readyState = wsClose(@)]]
    ELSE w

\* isConnected(): this.ws && this.ws.readyState === WebSocket.OPEN
isConnected(w, m) ==
    /\ w.managers[m].ws # 0
    /\ w.sockets[w.managers[m].ws].readyState = "OPEN"

\* faulty variant: reconnects whenever a socket is held, whatever its readyState
updateToken_anyState(w, m, newToken) ==
    LET w1 == [w EXCEPT !.managers[m].accessToken = newToken] IN
    IF w1.managers[m].ws # 0 THEN connect(disconnect(w1, m), m) ELSE w1

\* updateToken(newToken)
updateToken(w, m, newToken) ==
    LET w1 == [w EXCEPT !.managers[m].accessToken = newToken] IN
    IF isConnected(w1, m) THEN connect(disconnect(w1, m), m) ELSE w1

(***************************************************************************)
(* Bridge402Client.getStatus                                               *)
(***************************************************************************)
getStatus ==
    [isRunning   |-> isRunning,
     isConnected |-> IF wsManager # 0 THEN isConnected(W, wsManager) ELSE FALSE,
     hasToken    |-> currentToken # 0]

(***************************************************************************)
(* Bridge402Client.start                                                   *)
(***************************************************************************)
StartInFlight(i) == starts[i] \in {"invoice", "pay"}

\* faulty variant: the wallet is only missed once the invoice has come
startEntry_lateWalletCheck == IF isRunning THEN "noop" ELSE "invoice"

\* faulty variant: the wallet is checked before isRunning
startChecks_walletFirst(running, hasWallet) ==
    IF ~hasWallet THEN "rejected"
    ELSE IF running THEN "noop"
    ELSE "invoice"

\* if (this.isRunning) return; if (!this.wallet) throw ...
startChecks(running, hasWallet) ==
    IF running THEN "noop"
    ELSE IF ~hasWallet THEN "rejected"
    ELSE "invoice"

\* the checks start() makes before its try block
startEntry == startChecks(isRunning, wallet)

\* start() up to its first await: the isRunning check, the wallet check and
\* the call of paymentManager.getInvoice
StartCall(i) ==
    /\ starts[i] = "idle"
    /\ \A j \in StartIds : j < i => starts[j] # "idle"
    /\ Begun < budget
    /\ starts' = [starts EXCEPT ![i] = startEntry]
    /\ emitted' = <<>>
    /\ wsEmitted' = <<>>
    /\ stopInflight' = FALSE
    /\ UNCHANGED <<config, isRunning, currentToken, wsManager, managers,
                   sockets, cycles, nextToken, stops>>

\* faulty variant: a failed invoice request is swallowed without an event
StartInvoiceReturn_silent(i, status) ==
    /\ starts[i] = "invoice"
    /\ IF status = InvoiceStatus
       THEN /\ starts' = [starts EXCEPT ![i] = "pay"]
            /\ emitted' = <<>>
       ELSE /\ starts' = [starts EXCEPT ![i] = "rejected"]
            /\ emitted' = <<>>
    /\ wsEmitted' = <<>>
    /\ UNCHANGED <<config, isRunning, currentToken, wsManager, managers,
                   sockets, cycles, nextToken, stops, stopInflight>>

\* getInvoice returns (status 402) or throws; on 402 payInvoice is called
StartInvoiceReturn(i, status) ==
    /\ starts[i] = "invoice"
    /\ IF status = InvoiceStatus
       THEN /\ starts' = [starts EXCEPT ![i] = "pay"]
            /\ emitted' = <<>>
       ELSE /\ starts' = [starts EXCEPT ![i] = "rejected"]
            /\ emitted' = <<"error">>
    /\ wsEmitted' = <<>>
    /\ UNCHANGED <<config, isRunning, currentToken, wsManager, managers,
                   sockets, cycles, nextToken, stops, stopInflight>>

\* faulty variant: the manager is created but connect() is never called
startConnected_noConnect(i, token) ==
    /\ currentToken' = token
    /\ wsManager' = i
    /\ managers' = [managers EXCEPT ![i] =
                       [made |-> TRUE, accessToken |-> token, ws |-> 0]]
    /\ sockets' = sockets
    /\ isRunning' = TRUE
    /\ emitted' = <<"started">>

\* the rest of start() once payInvoice has returned the session
startConnected(i, token) ==
    LET made == [managers EXCEPT ![i] =
                    [made |-> TRUE, accessToken |-> token, ws |-> 0]]
        w    == connect([managers |-> made, sockets |-> sockets], i)
    IN  /\ currentToken' = token
        /\ wsManager' = i
        /\ managers' = w.managers
        /\ sockets' = w.sockets
        /\ isRunning' = TRUE
        /\ emitted' = <<"started">>

\* payInvoice returns the session (status 200) or throws (no fee payer, no
\* source account, a status other than 200)
StartPayReturn(i, status) ==
    /\ starts[i] = "pay"
    /\ IF status = PaidStatus
       THEN /\ starts' = [starts EXCEPT ![i] = "done"]
            /\ nextToken' = nextToken + 1
            /\ startConnected(i, nextToken + 1)
       ELSE /\ starts' = [starts EXCEPT ![i] = "rejected"]
            /\ emitted' = <<"error">>
            /\ UNCHANGED <<isRunning, currentToken, wsManager, managers,
                           sockets, nextToken>>
    /\ wsEmitted' = <<>>
    /\ UNCHANGED <<config, cycles, stops, stopInflight>>

(***************************************************************************)
(* Bridge402Client.extendSessionWithRetry                                  *)
(***************************************************************************)
CycleInFlight(c) == cycles[c].pc \in {"invoice", "pay", "wait"}

\* faulty variant: the loop test lets one more iteration through
loopContinues_offByOne(attempt) == attempt <= retryAttempts + 1

\* for (...; attempt <= this.retryAttempts; ...)
loopContinues(attempt) == attempt <= retryAttempts

\* faulty variant: the first failure is taken for the last
isLastAttempt_first(attempt) == attempt = 1

\* const isLastAttempt = attempt === this.retryAttempts
isLastAttempt(attempt) == attempt = retryAttempts

\* faulty variant: the delay grows by the base delay instead of doubling
nextRetryDelay_linear(retryDelay) == retryDelay + BaseDelay

\* retryDelay *= 2
nextRetryDelay(retryDelay) == retryDelay * 2

\* attempt++, the loop test and, when it passes, the call of getExtendInvoice
nextIteration(cy) ==
    LET a == cy.attempt + 1 IN
    IF loopContinues(a)
    THEN [cy EXCEPT !.attempt = a, !.pc = "invoice", !.tries = @ + 1]
    ELSE [cy EXCEPT !.attempt = a, !.pc = "done"]

\* extendSessionWithRetry() up to its first await; afterFailed records that
\* an earlier cycle had already given up when this one began
beginCycle ==
    nextIteration([NoCycle EXCEPT
        !.retryDelay = BaseDelay,
        !.afterFailed = \E d \in CycleIds : cycles[d].failedEmits > 0])

\* text.includes(phrase): a text is the set of the phrases it contains
includes(text, phrase) == phrase \in text

\* a text with none of the phrases the code looks for
Generic == {}

\* the message of the error thrown for a reply: it holds the status and the
\* text of the body
errorMessage(status, text) == text \cup (IF status = 521 THEN {"521"} ELSE {})

\* const isFacilitatorError = ...
isFacilitatorError(message) ==
    \/ includes(message, "Facilitator")
    \/ includes(message, "521")
    \/ includes(message, "verify failed")

\* faulty variant: a facilitator error is waited for twice as long
waitFor_facilitator(retryDelay, hint) ==
    IF hint THEN 2 * retryDelay ELSE retryDelay

\* the wait after a failure that is not the last: the hint is only logged
waitFor(retryDelay, hint) == retryDelay

\* faulty variant: the last failure is only logged
attemptFailed_quiet(c, message) ==
    LET hint == isFacilitatorError(message)
        cy == [cycles[c] EXCEPT !.classes = Append(@, hint)]
    IN  IF isLastAttempt(cy.attempt)
        THEN /\ cycles' = [cycles EXCEPT ![c] = nextIteration(cy)]
             /\ emitted' = <<>>
        ELSE /\ cycles' = [cycles EXCEPT ![c] =
                              [cy EXCEPT !.pc = "wait",
                                         !.waits = Append(@, waitFor(cy.retryDelay,
                                                                     hint))]]
             /\ emitted' = <<>>

\* the catch block up to its await (or to the end of the function); classes
\* records how each failure of the cycle was classified
attemptFailed(c, message) ==
    LET hint == isFacilitatorError(message)
        cy == [cycles[c] EXCEPT !.classes = Append(@, hint)]
    IN  IF isLastAttempt(cy.attempt)
        THEN /\ cycles' = [cycles EXCEPT ![c] =
                              nextIteration([cy EXCEPT !.failedEmits = @ + 1])]
             /\ emitted' = <<"sessionRenewalFailed">>
        ELSE /\ cycles' = [cycles EXCEPT ![c] =
                              [cy EXCEPT !.pc = "wait",
                                         !.waits = Append(@, waitFor(cy.retryDelay,
                                                                     hint))]]
             /\ emitted' = <<>>

\* getExtendInvoice returns (status 402) or throws; on 402 extendSession is called
ExtInvoiceReturn(c, status, text) ==
    /\ cycles[c].pc = "invoice"
    /\ IF status = InvoiceStatus
       THEN /\ cycles' = [cycles EXCEPT ![c].pc = "pay"]
            /\ emitted' = <<>>
       ELSE attemptFailed(c, errorMessage(status, text))
    /\ wsEmitted' = <<>>
    /\ UNCHANGED <<config, isRunning, currentToken, wsManager, managers,
                   sockets, starts, nextToken, stops, stopInflight>>

\* faulty variant: the new token is kept by the client alone
attemptSucceeded_clientOnly(c, token) ==
    LET open == wsManager # 0 /\ isConnected(W, wsManager)
    IN  /\ currentToken' = token
        /\ managers' = managers
        /\ sockets' = sockets
        /\ cycles' = [cycles EXCEPT ![c] =
                        [@ EXCEPT !.pc = "done", !.extended = TRUE,
                                  !.activeAtRenew = isRunning /\ open,
                                  !.torn = 0]]
        /\ emitted' = <<"sessionRenewed">>

\* the try block after extendSession has returned extPaid
attemptSucceeded(c, token) ==
    LET w == IF wsManager # 0 THEN updateToken(W, wsManager, token) ELSE W
        open == wsManager # 0 /\ isConnected(W, wsManager)
    IN  /\ currentToken' = token
        /\ managers' = w.managers
        /\ sockets' = w.sockets
        /\ cycles' = [cycles EXCEPT ![c] =
                        [@ EXCEPT !.pc = "done", !.extended = TRUE,
                                  !.activeAtRenew = isRunning /\ open,
                                  !.torn = IF open THEN managers[wsManager].ws
                                                   ELSE 0]]
        /\ emitted' = <<"sessionRenewed">>

\* extendSession returns (status 200) or throws
ExtPayReturn(c, status, text) ==
    /\ cycles[c].pc = "pay"
    /\ IF status = PaidStatus
       THEN /\ nextToken' = nextToken + 1
            /\ attemptSucceeded(c, nextToken + 1)
       ELSE /\ attemptFailed(c, errorMessage(status, text))
            /\ UNCHANGED <<currentToken, managers, sockets, nextToken>>
    /\ wsEmitted' = <<>>
    /\ UNCHANGED <<config, isRunning, wsManager, starts, stops, stopInflight>>

\* the backoff timer fires: retryDelay *= 2 and the next iteration
BackoffElapsed(c) ==
    /\ cycles[c].pc = "wait"
    /\ cycles' = [cycles EXCEPT ![c] =
                    nextIteration([@ EXCEPT !.retryDelay = nextRetryDelay(@)])]
    /\ emitted' = <<>>
    /\ wsEmitted' = <<>>
    /\ UNCHANGED <<config, isRunning, currentToken, wsManager, managers,
                   sockets, starts, nextToken, stops, stopInflight>>

(***************************************************************************)
(* Socket events: the handlers WebSocketManager.connect attaches, and the  *)
(* Bridge402Client callbacks they call.                                    *)
(***************************************************************************)
SocketIds == 1..Len(sockets)

\* WebSocketManager.emit(event, ...args): the body is empty, so nothing that is
\* passed to it reaches the owner of the manager; the call is only recorded
wsEmit(event) == wsEmitted' = <<event>>

\* 'open': only logs and emits
SocketOpen(s) ==
    /\ sockets[s].readyState = "CONNECTING"
    /\ sockets' = [sockets EXCEPT ![s].readyState = "OPEN"]
    /\ emitted' = <<>>
    /\ wsEmit("connected")
    /\ UNCHANGED <<config, isRunning, currentToken, wsManager, managers,
                   starts, cycles, nextToken, stops, stopInflight>>

\* content messages forwarded to the webhook over a run
MaxForwards == 2

\* statuses the webhook may answer with; 0 stands for a request that throws
HookStatuses == {0, 200, 204, 302, 500}

\* faulty variant: a redirect counts as delivered
isDelivered_lax(status) == status >= 200 /\ status < 400

\* status >= 200 && status < 300
isDelivered(status) == status >= 200 /\ status < 300

\* forwardToWebhook(message) up to its await of httpPost, or to the throw of
\* formatter.format(message)
forwardToWebhook(msg) ==
    IF webhook.formatter = "throws"
    THEN [msg |-> msg, pc |-> "thrown", status |-> 0, emits |-> <<>>]
    ELSE [msg |-> msg, pc |-> "post", status |-> 0, emits |-> <<>>]

\* the rest of forwardToWebhook and of handleMessage once the forward fw has
\* succeeded or failed: what is emitted, with the message it is emitted for
forwarded(fw, ok) ==
    [fw EXCEPT
        !.pc = "done",
        !.emits = <<[event |-> IF ok THEN "webhookSuccess" ELSE "webhookError",
                     msg |-> fw.msg],
                    [event |-> "message", msg |-> fw.msg]>>]

\* the names of the events a forward has emitted
names(fw) == [k \in 1..Len(fw.emits) |-> fw.emits[k].event]

\* faulty variant: the warning is announced even when it is renewed
handleMessage_announces(kind) ==
    IF kind = "expiry_soon"
    THEN /\ IF autoRenew
            THEN \E c \in CycleIds :
                   /\ cycles[c].pc = "idle"
                   /\ \A d \in CycleIds : d < c => cycles[d].pc # "idle"
                   /\ Begun < budget
                   /\ cycles' = [cycles EXCEPT ![c] = beginCycle]
                   /\ emitted' = <<"sessionExpiring">>
            ELSE /\ emitted' = <<"sessionExpiring">>
                 /\ UNCHANGED cycles
         /\ UNCHANGED forwards
    ELSE IF kind = "content" /\ webhook.url # "none"
    THEN /\ Len(forwards) < MaxForwards
         /\ LET fw == forwardToWebhook(Len(forwards) + 1)
                fw1 == IF fw.pc = "thrown" THEN forwarded(fw, FALSE) ELSE fw
            IN  /\ forwards' = Append(forwards, fw1)
                /\ emitted' = names(fw1)
         /\ UNCHANGED cycles
    ELSE /\ emitted' = << CASE kind = "session_extended" -> "sessionExtended"
                            [] kind = "connected" -> "connected"
                            [] OTHER -> "message" >>
         /\ UNCHANGED <<cycles, forwards>>

\* handleMessage(msg) up to its first await
handleMessage(kind) ==
    IF kind = "expiry_soon"
    THEN /\ IF autoRenew
            THEN \E c \in CycleIds :
                   /\ cycles[c].pc = "idle"
                   /\ \A d \in CycleIds : d < c => cycles[d].pc # "idle"
                   /\ Begun < budget
                   /\ cycles' = [cycles EXCEPT ![c] = beginCycle]
                   /\ emitted' = <<>>
            ELSE /\ emitted' = <<"sessionExpiring">>
                 /\ UNCHANGED cycles
         /\ UNCHANGED forwards
    ELSE IF kind = "content" /\ webhook.url # "none"
    THEN /\ Len(forwards) < MaxForwards
         /\ LET fw == forwardToWebhook(Len(forwards) + 1)
                fw1 == IF fw.pc = "thrown" THEN forwarded(fw, FALSE) ELSE fw
            IN  /\ forwards' = Append(forwards, fw1)
                /\ emitted' = names(fw1)
         /\ UNCHANGED cycles
    ELSE /\ emitted' = << CASE kind = "session_extended" -> "sessionExtended"
                            [] kind = "connected" -> "connected"
                            [] OTHER -> "message" >>
         /\ UNCHANGED <<cycles, forwards>>

\* httpPost(this.webhook.url, ...) returns or throws: the rest of
\* forwardToWebhook, and of the handleMessage that awaits it
WebhookReply(f, status) ==
    /\ forwards[f].pc = "post"
    /\ LET fw == forwarded([forwards[f] EXCEPT !.status = status],
                           isDelivered(status))
       IN  /\ forwards' = [forwards EXCEPT ![f] = fw]
           /\ emitted' = names(fw)
    /\ wsEmitted' = <<>>
    /\ UNCHANGED <<options, isRunning, currentToken, wsManager, managers,
                   sockets, starts, cycles, nextToken, stops, stopInflight>>

\* a renewal cycle is suspended at one of its awaits
suspended == \E c \in CycleIds : cycles[c].pc \in {"invoice", "pay", "wait"}

\* faulty variant: no message is dispatched while a renewal cycle is suspended
dispatch_blocking(s) ==
    sockets[s].readyState \in {"OPEN", "CLOSING"} /\ ~suspended

\* the 'message' listener runs whenever the socket has a message: the promise
\* of onMessage is not awaited
dispatch(s) == sockets[s].readyState \in {"OPEN", "CLOSING"}

\* 'message' with a frame that parses as JSON: onMessage(msg).  A socket
\* whose close() has been called still delivers the frames that arrive
\* before the close handshake completes.
onMessage(s, kind) ==
    /\ dispatch(s)
    /\ handleMessage(kind)
    /\ wsEmit("message")
    /\ UNCHANGED <<settings, isRunning, currentToken, wsManager, managers,
                   sockets, starts, nextToken, stops, stopInflight>>

\* a message of which only the kind matters
SocketMessage(s, kind) == onMessage(s, kind) /\ UNCHANGED received

\* faulty variant: a message with a body or a source is content whatever
\* its type
kindOf_fieldsFirst(m) ==
    IF m.body \/ m.source THEN "content"
    ELSE IF m.type = "expiry_soon" THEN "expiry_soon"
    ELSE IF m.type = "session_extended" THEN "session_extended"
    ELSE IF m.status = "connected" THEN "connected"
    ELSE "content"

\* the branch of handleMessage a message takes: msg.type === 'expiry_soon',
\* msg.type === 'session_extended', msg.status === 'connected', else content
kindOf(m) ==
    IF m.type = "expiry_soon" THEN "expiry_soon"
    ELSE IF m.type = "session_extended" THEN "session_extended"
    ELSE IF m.status = "connected" THEN "connected"
    ELSE "content"

\* faulty variant: the source field is looked at first
getMessageType_sourceFirst(message) ==
    IF message.source THEN "article"
    ELSE IF message.body THEN "twitter"
    ELSE "unknown"

\* MessageFormatter.getMessageType(message)
getMessageType(message) ==
    IF message.body THEN "twitter"
    ELSE IF message.source THEN "article"
    ELSE "unknown"

\* this.emit('sessionExpiring', { secondsRemaining: msg.seconds_remaining })
sessionExpiring(m) == [secondsRemaining |-> m.seconds_remaining]

\* the message m arrives and handleMessage(m) runs to its first await
StreamMessage(s, m) ==
    /\ onMessage(s, kindOf(m))
    /\ received' = [type |-> m.type, status |-> m.status, body |-> m.body,
                    source |-> m.source,
                    seconds_remaining |-> m.seconds_remaining,
                    handled |-> TRUE,
                    payload |-> IF kindOf(m) = "expiry_soon" /\ ~autoRenew
                                THEN sessionExpiring(m).secondsRemaining
                                ELSE 0]

\* a frame that is not JSON is the set of the phrases it contains
RawTexts == SUBSET {"Session expired", "Renew"}

\* 'message' with a frame that JSON.parse rejects: the catch block, which
\* calls neither onMessage nor any other callback of the owner
SocketRawMessage(s, text) ==
    /\ sockets[s].readyState \in {"OPEN", "CLOSING"}
    /\ IF includes(text, "Session expired") \/ includes(text, "Renew")
       THEN wsEmit("sessionExpired")
       ELSE wsEmit("rawMessage")
    /\ emitted' = <<>>
    /\ UNCHANGED <<config, isRunning, currentToken, wsManager, managers,
                   sockets, starts, cycles, nextToken, stops, stopInflight>>

\* 'error': onError(err) -> handleError; the socket goes on to close
SocketError(s) ==
    /\ sockets[s].readyState \in {"CONNECTING", "OPEN"}
    /\ sockets' = [sockets EXCEPT ![s].readyState = wsClose(@)]
    /\ emitted' = <<"error">>
    /\ wsEmit("error")
    /\ UNCHANGED <<config, isRunning, currentToken, wsManager, managers,
                   starts, cycles, nextToken, stops, stopInflight>>

\* the server begins the close handshake; no handler runs yet
SocketClosing(s) ==
    /\ sockets[s].readyState = "OPEN"
    /\ sockets' = [sockets EXCEPT ![s].readyState = "CLOSING"]
    /\ emitted' = <<>>
    /\ wsEmitted' = <<>>
    /\ UNCHANGED <<config, isRunning, currentToken, wsManager, managers,
                   starts, cycles, nextToken, stops, stopInflight>>

\* handleClose(code, reason)
handleClose ==
    /\ isRunning' = FALSE
    /\ emitted' = <<"closed">>

\* 'close': onClose(code, reason) -> handleClose
SocketClose(s) ==
    /\ sockets[s].readyState \in {"CLOSING", "ABORTING"}
    /\ sockets' = [sockets EXCEPT ![s].readyState = "CLOSED"]
    /\ handleClose
    /\ wsEmit("close")
    /\ UNCHANGED <<config, currentToken, wsManager, managers, starts, cycles,
                   nextToken, stops, stopInflight>>

(***************************************************************************)
(* Bridge402Client.stop                                                    *)
(***************************************************************************)
stop ==
    LET w == IF wsManager # 0 THEN disconnect(W, wsManager) ELSE W IN
    /\ managers' = w.managers
    /\ sockets' = w.sockets
    /\ isRunning' = FALSE
    /\ emitted' = <<"stopped">>

Stop ==
    /\ stops < MaxStops
    /\ stops' = stops + 1
    /\ stop
    /\ wsEmitted' = <<>>
    /\ stopInflight' = ((\E i \in StartIds : StartInFlight(i))
                        \/ (\E c \in CycleIds : CycleInFlight(c)))
    /\ UNCHANGED <<config, currentToken, wsManager, starts, cycles, nextToken>>

(***************************************************************************)
(* The specification                                                       *)
(***************************************************************************)
Next ==
    \/ \E i \in StartIds : StartCall(i)
    \/ \E i \in StartIds, st \in Statuses : StartInvoiceReturn(i, st)
    \/ \E i \in StartIds, st \in Statuses : StartPayReturn(i, st)
    \/ \E s \in SocketIds : SocketOpen(s)
    \/ \E s \in SocketIds, k \in MsgKinds : SocketMessage(s, k)
    \/ \E s \in SocketIds, t \in RawTexts : SocketRawMessage(s, t)
    \/ \E s \in SocketIds : SocketError(s)
    \/ \E s \in SocketIds : SocketClosing(s)
    \/ \E s \in SocketIds : SocketClose(s)
    \/ \E c \in CycleIds, st \in Statuses : ExtInvoiceReturn(c, st, Generic)
    \/ \E c \in CycleIds, st \in Statuses : ExtPayReturn(c, st, Generic)
    \/ \E c \in CycleIds : BackoffElapsed(c)
    \/ Stop

Spec == Init /\ [][Next]_vars

\* the runs with one start() and one renewal cycle, or two start() calls
SpecSolo == InitSolo /\ [][Next]_vars

\* every HTTP call of a renewal cycle returns or fails, and every backoff
\* timer fires
CallsReturn ==
    \A c \in CycleIds :
        /\ WF_vars(\E st \in Statuses : ExtInvoiceReturn(c, st, Generic))
        /\ WF_vars(\E st \in Statuses : ExtPayReturn(c, st, Generic))
        /\ WF_vars(BackoffElapsed(c))

\* the same runs, in which no call and no timer of a renewal cycle is
\* pending for ever
SpecSoloLive == SpecSolo /\ CallsReturn

\* texts of the replies that fail a renewal attempt
PolicyTexts == {Generic, {"verify failed"}, {"Facilitator", "521"}}

InitPolicy ==
    /\ Constructed
    /\ retryAttempts = RetryOption(2)
    /\ autoRenew
    /\ wallet
    /\ Unfollowed
    /\ budget = MaxAsync

NextPolicy ==
    \/ \E i \in StartIds : StartCall(i)
    \/ \E i \in StartIds, st \in Statuses : StartInvoiceReturn(i, st)
    \/ \E i \in StartIds, st \in Statuses : StartPayReturn(i, st)
    \/ \E s \in SocketIds : SocketOpen(s)
    \/ \E s \in SocketIds : SocketMessage(s, "expiry_soon")
    \/ \E c \in CycleIds, st \in Statuses, x \in PolicyTexts :
          ExtInvoiceReturn(c, st, x)
    \/ \E c \in CycleIds, st \in Statuses, x \in PolicyTexts :
          ExtPayReturn(c, st, x)
    \/ \E c \in CycleIds : BackoffElapsed(c)

\* renewal cycles whose attempts fail with errors of either class
SpecPolicy == InitPolicy /\ [][NextPolicy]_vars

\* a client with a webhook, and perhaps a formatter, good or faulty
Webhooks == [url : {"hook"}, formatter : {"none", "ok", "throws"}]

InitHook ==
    /\ Constructed
    /\ retryAttempts = RetryOption(1)
    /\ autoRenew \in BOOLEAN
    /\ wallet
    /\ webhook \in Webhooks
    /\ setup = [followed |-> FALSE]
    /\ flow = NoFlow
    /\ reqs = <<>>
    /\ budget = MaxSolo

NextHook ==
    \/ \E i \in StartIds : StartCall(i)
    \/ \E i \in StartIds, st \in Statuses : StartInvoiceReturn(i, st)
    \/ \E i \in StartIds, st \in Statuses : StartPayReturn(i, st)
    \/ \E s \in SocketIds : SocketOpen(s)
    \/ \E s \in SocketIds, k \in MsgKinds : SocketMessage(s, k)
    \/ \E f \in 1..Len(forwards), st \in HookStatuses : WebhookReply(f, st)
    \/ \E s \in SocketIds : SocketClosing(s)
    \/ \E s \in SocketIds : SocketClose(s)

\* the stream of a client that forwards its content messages to a webhook
SpecHook == InitHook /\ [][NextHook]_vars

\* a client with or without a webhook, and the messages of its stream
InitStream ==
    /\ Constructed
    /\ retryAttempts = RetryOption(1)
    /\ autoRenew \in BOOLEAN
    /\ wallet
    /\ webhook \in {NoWebhook, [url |-> "hook", formatter |-> "ok"],
                    [url |-> "hook", formatter |-> "throws"]}
    /\ setup = [followed |-> FALSE]
    /\ flow = NoFlow
    /\ reqs = <<>>
    /\ budget = MaxSolo

NextStream ==
    \/ \E i \in StartIds : StartCall(i)
    \/ \E i \in StartIds : StartInvoiceReturn(i, InvoiceStatus)
    \/ \E i \in StartIds : StartPayReturn(i, PaidStatus)
    \/ \E s \in SocketIds : SocketOpen(s)
    \/ \E s \in SocketIds, m \in Messages : StreamMessage(s, m)
    \/ \E f \in 1..Len(forwards), st \in HookStatuses : WebhookReply(f, st)
    \/ \E c \in CycleIds, st \in Statuses : ExtInvoiceReturn(c, st, Generic)
    \/ \E c \in CycleIds, st \in Statuses : ExtPayReturn(c, st, Generic)

SpecStream == InitStream /\ [][NextStream]_vars

(***************************************************************************)
(* The paid operations, followed request by request: PaymentManager         *)
(* (getInvoice / payInvoice / getExtendInvoice / extendSession /            *)
(* fetchSupportedFeePayer), DiffbotClient._extract and buildExactPaymentTx. *)
(* undefined and null are None; an absent number is 0, an absent text or   *)
(* list <<>>.  A text is the sequence of its characters.                   *)
(***************************************************************************)
None == "none"

\* options.duration || 5
DefaultDuration == 5
\* accepts.extra?.minutes || 5
FallbackMinutes == 5
\* setComputeUnitLimit({ units: 40_000 })
ComputeUnits == 40000
\* setComputeUnitPrice({ microLamports: 1 })
MicroLamports == 1
\* x402Version: 1
X402Version == 1
\* status of a facilitator reply that is read
SupportedStatus == 200

\* this.duration = options.duration || 5 : 0 (and undefined) give 5
DurationOption(n) == IF n = 0 THEN DefaultDuration ELSE n

\* this.network = options.network || 'sol'
NetworkOption(n) == IF n = None THEN "sol" ELSE n

\* url.startsWith(prefix)
startsWith(url, prefix) ==
    /\ Len(url) >= Len(prefix)
    /\ SubSeq(url, 1, Len(prefix)) = prefix

HttpPrefix  == <<"h", "t", "t", "p", ":", "/", "/">>
HttpsPrefix == <<"h", "t", "t", "p", "s", ":", "/", "/">>

\* targets the application may pass: empty, other schemes, near misses, valid
Urls == { <<>>,
          <<"f", "t", "p", ":", "/", "/", "a">>,
          <<"h", "t", "t", "p", ":", "a">>,
          <<"a", ".", "b">>,
          HttpPrefix \o <<"a", "/", "b">>,
          HttpsPrefix \o <<"a">> }

\* encodeURIComponent, on the characters the targets are made of
encodeChar(ch) ==
    CASE ch = ":" -> <<"%", "3", "A">>
      [] ch = "/" -> <<"%", "2", "F">>
      [] OTHER    -> <<ch>>

RECURSIVE encodeURIComponent(_)
encodeURIComponent(url) ==
    IF url = <<>> THEN <<>>
    ELSE encodeChar(Head(url)) \o encodeURIComponent(Tail(url))

ExtractionTypes == {"article", "product", "discussion", "image"}

\* BigInt(text) of a decimal numeral
RECURSIVE BigInt(_)
BigInt(digits) ==
    IF digits = <<>> THEN 0
    ELSE 10 * BigInt(SubSeq(digits, 1, Len(digits) - 1)) + digits[Len(digits)]

\* an invoice: extra.feePayer, extra.minutes, asset, payTo, maxAmountRequired
Blank == [feePayer |-> None, minutes |-> 0, asset |-> None, payTo |-> None,
          maxAmountRequired |-> <<>>]

Invoices ==
    [feePayer : {None, "FPinvoice"}, minutes : {0, 10},
     asset : {None, "MintOther"}, payTo : {"Merchant"},
     maxAmountRequired : {<<7>>, <<1, 2, 0>>}]

\* an entry of an accepts list the client must not pick
Decoy == [feePayer |-> "FPdecoy", minutes |-> 7, asset |-> "MintDecoy",
          payTo |-> "Decoy", maxAmountRequired |-> <<9, 9>>]

\* bodies of the replies to an invoice request: an object with an accepts
\* list (perhaps empty), an object without one (own holds the fields of the
\* body itself), or a text that is not JSON
InvoiceBodies ==
    {[kind |-> "accepts", accepts |-> <<i, Decoy>>, own |-> Blank] : i \in Invoices}
    \cup {[kind |-> "accepts", accepts |-> <<>>, own |-> i] : i \in Invoices}
    \cup {[kind |-> "bare", accepts |-> <<>>, own |-> i] : i \in Invoices}
    \cup {[kind |-> "text", accepts |-> <<>>, own |-> Blank]}

\* (json.accepts && json.accepts[0]) || json
invoiceOf(json) ==
    IF json.kind = "accepts" /\ Len(json.accepts) > 0
    THEN json.accepts[1]
    ELSE json.own

\* faulty variant: every status below 500 is taken for an invoice
isInvoice_lax(status) == status # 0 /\ status < 500

\* status !== 402 is the error case
isInvoice(status) == status = InvoiceStatus

\* faulty variant: a repeated 402 is taken for success
isPaid_lax(status) == status \in {PaidStatus, InvoiceStatus}

\* status !== 200 is the error case
isPaid(status) == status = PaidStatus

\* new Error(`... ${status}: ${JSON.stringify(json)}`): what the error carries
Failure(name, status, body) == [name |-> name, status |-> status, body |-> body]

NoBody == [kind |-> None]

NoError == Failure(None, 0, NoBody)

\* bodies of the facilitator's /supported reply: the kinds it lists
SupportedBodies ==
    { [kind |-> "object", kinds |-> <<>>],
      [kind |-> "object",
       kinds |-> <<[network |-> "solana", feePayer |-> "FPfacilitator"]>>],
      [kind |-> "object",
       kinds |-> <<[network |-> "base", feePayer |-> "FPbase"],
                   [network |-> "solana", feePayer |-> "FPfacilitator"]>>],
      [kind |-> "object",
       kinds |-> <<[network |-> "base", feePayer |-> "FPbase"]>>],
      [kind |-> "object", kinds |-> <<[network |-> "solana", feePayer |-> None]>>],
      [kind |-> "text", kinds |-> <<>>] }

\* (json.kinds || []).find(k => k.network === 'solana')?.extra?.feePayer
RECURSIVE findSolana(_)
findSolana(kinds) ==
    IF kinds = <<>> THEN None
    ELSE IF Head(kinds).network = "solana" THEN Head(kinds).feePayer
    ELSE findSolana(Tail(kinds))

\* fetchSupportedFeePayer(): null when the request throws (status 0), on a
\* status other than 200, on a body that is no object, on no solana entry
fetchSupportedFeePayer(status, json) ==
    IF status # SupportedStatus \/ json.kind # "object" THEN None
    ELSE findSolana(json.kinds)

\* faulty variant: the override is preferred to the invoice
localFeePayer_envFirst(accepts, env) ==
    IF env # None THEN env ELSE accepts.feePayer

\* accepts?.extra?.feePayer || process.env.SOL_FEE_PAYER
localFeePayer(accepts, env) ==
    IF accepts.feePayer # None THEN accepts.feePayer ELSE env

(***************************************************************************)
(* buildExactPaymentTx                                                     *)
(***************************************************************************)
\* what the chain answers: the program that owns the mint, the mint's
\* decimals, and whether the two associated token accounts exist
Ledgers == [token2022 : BOOLEAN, decimals : {6, 9},
            sourceAta : BOOLEAN, destAta : BOOLEAN]

\* getAssociatedTokenAddress(mint, owner, false, programId)
getAssociatedTokenAddress(mint, owner, programId) ==
    [mint |-> mint, owner |-> owner, programId |-> programId]

setComputeUnitLimit == [kind |-> "setComputeUnitLimit", units |-> ComputeUnits]

setComputeUnitPrice ==
    [kind |-> "setComputeUnitPrice", microLamports |-> MicroLamports]

\* faulty variant: the payer funds the creation of the destination account
createAta_payerFunds(feePayer, destinationAta, recipient, mint, programId) ==
    [kind |-> "createAssociatedTokenAccount",
     keys |-> <<[pubkey |-> "Payer", isSigner |-> TRUE, isWritable |-> TRUE],
                [pubkey |-> destinationAta, isSigner |-> FALSE, isWritable |-> TRUE],
                [pubkey |-> recipient, isSigner |-> FALSE, isWritable |-> FALSE],
                [pubkey |-> mint, isSigner |-> FALSE, isWritable |-> FALSE],
                [pubkey |-> "SystemProgram", isSigner |-> FALSE, isWritable |-> FALSE],
                [pubkey |-> programId, isSigner |-> FALSE, isWritable |-> FALSE]>>]

\* the instruction of the associated-token program that creates destinationAta
createAta(feePayer, destinationAta, recipient, mint, programId) ==
    [kind |-> "createAssociatedTokenAccount",
     keys |-> <<[pubkey |-> feePayer, isSigner |-> TRUE, isWritable |-> TRUE],
                [pubkey |-> destinationAta, isSigner |-> FALSE, isWritable |-> TRUE],
                [pubkey |-> recipient, isSigner |-> FALSE, isWritable |-> FALSE],
                [pubkey |-> mint, isSigner |-> FALSE, isWritable |-> FALSE],
                [pubkey |-> "SystemProgram", isSigner |-> FALSE, isWritable |-> FALSE],
                [pubkey |-> programId, isSigner |-> FALSE, isWritable |-> FALSE]>>]

\* faulty variant: the amount is scaled by the mint's decimals
createTransferCheckedInstruction_scaled(source, mint, destination, owner, amount, decimals, programId) ==
    [kind |-> "transferChecked", source |-> source, mint |-> mint,
     destination |-> destination, owner |-> owner,
     amount |-> amount * (10 ^ decimals), decimals |-> decimals,
     programId |-> programId]

\* createTransferCheckedInstruction(source, mint, destination, owner, amount,
\* decimals, [], programId)
createTransferCheckedInstruction(source, mint, destination, owner, amount, decimals, programId) ==
    [kind |-> "transferChecked", source |-> source, mint |-> mint,
     destination |-> destination, owner |-> owner,
     amount |-> amount, decimals |-> decimals, programId |-> programId]

\* faulty variant: the account creation is put in front of the other instructions
withCreate_first(instructions, create) == <<create>> \o instructions

\* instructions.push(create)
withCreate(instructions, create) == Append(instructions, create)

\* faulty variant: the payer's account is taken to exist
sourceAtaInfo_assumed(ledger) == TRUE

\* connection.getAccountInfo(sourceAta, 'confirmed') is not null
sourceAtaInfo(ledger) == ledger.sourceAta

\* the RPC calls buildExactPaymentTx makes, in order
buildRpcs(ledger, createRecipientATAIfMissing) ==
    <<"getAccountInfo(mint)", "getMint", "getAccountInfo(sourceAta)">>
    \o (IF sourceAtaInfo(ledger)
        THEN (IF createRecipientATAIfMissing
              THEN <<"getAccountInfo(destinationAta)">> ELSE <<>>)
             \o <<"getLatestBlockhash">>
        ELSE <<>>)

NoTx == [payerKey |-> None, recentBlockhash |-> None, instructions |-> <<>>,
         signatures |-> <<>>]

\* buildExactPaymentTx({...}): the transaction, or the error it throws
buildExactPaymentTx(ledger, payer, feePayer, recipient, mint, amountAtomic, createRecipientATAIfMissing) ==
    LET programId == IF ledger.token2022 THEN "Token2022" ELSE "Token"
        sourceAta == getAssociatedTokenAddress(mint, payer, programId)
        destinationAta == getAssociatedTokenAddress(mint, recipient, programId)
        budget2 == <<setComputeUnitLimit, setComputeUnitPrice>>
        created == IF createRecipientATAIfMissing /\ ~ledger.destAta
                   THEN withCreate(budget2, createAta(feePayer, destinationAta,
                                                      recipient, mint, programId))
                   ELSE budget2
        transfer == createTransferCheckedInstruction(
                        sourceAta, mint, destinationAta, payer, amountAtomic,
                        ledger.decimals, programId)
    IN  IF ~sourceAtaInfo(ledger)
        THEN [error |-> "MissingSourceAccount", tx |-> NoTx]
        ELSE [error |-> None,
              tx |-> [payerKey |-> feePayer, recentBlockhash |-> "blockhash",
                      instructions |-> Append(created, transfer),
                      signatures |-> <<>>]]

\* tx.sign([this.wallet])
sign(tx, signer) == [tx EXCEPT !.signatures = Append(@, signer)]

\* Buffer.from(x).toString('base64')
base64(x) == [base64 |-> x]

\* tx.serialize(...)
serialize(tx) == [bytes |-> tx]

\* JSON.stringify(x)
stringify(x) == [json |-> x]

\* the X-PAYMENT header built from the signed transaction
XPAYMENT(tx) ==
    base64(stringify([x402Version |-> X402Version, scheme |-> "exact",
                      network |-> "solana",
                      payload |-> [transaction |-> base64(serialize(tx))]]))

\* the transaction a payment header carries
headerTx(header) == header.base64.json.payload.transaction.base64.bytes

(***************************************************************************)
(* A run that follows one client object, Bridge402Client or DiffbotClient, *)
(* through its paid operations, one at a time.                             *)
(***************************************************************************)
\* paid operations begun over a run
MaxCalls == 2

\* this.solUsdcMint, the default mint
solUsdcMint == "MintUSDC"

\* this.wallet.publicKey
payerPublicKey == "Payer"

\* the header of a request that carries no payment
NoHeader == XPAYMENT(NoTx)

\* a request: HTTP to the Bridge402 server or the facilitator, or an RPC
Request(method, host, path, duration_min, url, network, session, payment) ==
    [method |-> method, host |-> host, path |-> path,
     duration_min |-> duration_min, url |-> url, network |-> network,
     session |-> session, payment |-> payment]

Rpc(name) == Request("RPC", "solanaRpc", <<name>>, 0, <<>>, None, 0, NoHeader)

\* httpGet(`${this.facilitatorUrl}/supported`)
SupportedRequest ==
    Request("GET", "facilitator", <<"supported">>, 0, <<>>, None, 0, NoHeader)

\* history: the reply the last step has handled (a request that throws,
\* status 0, has no body)
Reply(of, status, body) ==
    [of |-> of, status |-> status, body |-> IF status = 0 THEN NoBody ELSE body]

NoReply == Reply(None, 0, NoBody)

\* the operation in progress: which call (op, id), its arguments, and the
\* locals that live across its awaits; invoiceBy and headerBy are the numbers
\* of the invocations in which the locals invoice and header were bound
newFlow(n, op, id, pc) ==
    [pc |-> pc, n |-> n, op |-> op, id |-> id, type |-> None, url |-> <<>>,
     token |-> 0, invoice |-> Blank, feePayer |-> None, header |-> NoHeader,
     result |-> NoBody, error |-> NoError, reply |-> NoReply,
     invoiceBy |-> 0, headerBy |-> 0]

Terminal == {"idle", "noop", "returned", "rejected"}

Configured ==
    /\ setup \in [followed : {TRUE}, client : {"bridge", "diffbot"},
                  duration : {DurationOption(n) : n \in {0, 10}},
                  network : {NetworkOption(n) : n \in {None, "base"}},
                  SOL_FEE_PAYER : {None, "FPenv"}]
    /\ setup.client = "bridge" => setup.network = NetworkOption(None)
    /\ setup.client = "diffbot" => setup.duration = DurationOption(0)
    /\ webhook = NoWebhook
    /\ flow = newFlow(0, None, 0, "idle")
    /\ reqs = <<>>

InitPay ==
    /\ Constructed
    /\ retryAttempts = RetryOption(1)
    /\ autoRenew
    /\ Configured
    /\ budget = MaxCalls

\* what a step of a paid operation may leave alone
session == <<isRunning, currentToken, wsManager, managers, sockets, nextToken>>
fixed == <<retryAttempts, autoRenew, wallet, budget, setup, stops,
           eventHandlers, delivered, webhook, forwards, received>>
static == <<fixed, batch>>

CanCall == flow.pc \in Terminal /\ flow.n < budget

\* httpPost(`${baseUrl}/connect?duration_min=${minutes}&network=sol`)
ConnectInvoiceRequest(minutes) ==
    Request("POST", "server", <<"connect">>, minutes, <<>>, "sol", 0, NoHeader)

\* accepts.extra?.minutes || 5
paidMinutes(accepts) ==
    IF accepts.minutes # 0 THEN accepts.minutes ELSE FallbackMinutes

\* httpPost(`${baseUrl}/connect?duration_min=${...}&network=sol`, X-PAYMENT)
ConnectPaidRequest(accepts, header) ==
    Request("POST", "server", <<"connect">>, paidMinutes(accepts), <<>>, "sol",
            0, header)

\* httpPost(`${baseUrl}/extend?duration_min=${minutes}&network=sol`, X-SESSION)
ExtendInvoiceRequest(minutes, token) ==
    Request("POST", "server", <<"extend">>, minutes, <<>>, "sol", token, NoHeader)

\* httpPost(`${baseUrl}/extend?...`, X-SESSION and X-PAYMENT)
ExtendPaidRequest(accepts, token, header) ==
    Request("POST", "server", <<"extend">>, paidMinutes(accepts), <<>>, "sol",
            token, header)

\* httpPost(`${baseUrl}/diffbot/${type}?url=${urlParam}&network=${network}`)
DiffbotRequest(type, url, network, header) ==
    Request("POST", "server", <<"diffbot", type>>, 0, encodeURIComponent(url),
            network, 0, header)

\* a request that throws carries no reply; otherwise the error carries the
\* status and the body
requestError(name, status, body) ==
    IF status = 0 THEN Failure("RequestFailed", 0, NoBody)
    ELSE Failure(name, status, body)

\* faulty variant: the wallet is looked at before the target
extractEntry_walletFirst(type, url) ==
    IF ~wallet THEN "MissingWallet"
    ELSE IF url = <<>> \/ (~startsWith(url, HttpPrefix) /\ ~startsWith(url, HttpsPrefix))
    THEN "InvalidInput"
    ELSE "invoice"

\* the checks _extract makes before its try block
extractEntry(type, url) ==
    IF url = <<>> \/ (~startsWith(url, HttpPrefix) /\ ~startsWith(url, HttpsPrefix))
    THEN "InvalidInput"
    ELSE IF ~wallet THEN "MissingWallet"
    ELSE IF type \notin ExtractionTypes THEN "InvalidType"
    ELSE "invoice"

\* start() of the followed Bridge402Client, up to its first await
PayStartCall(i) ==
    /\ setup.client = "bridge"
    /\ CanCall
    /\ starts[i] = "idle"
    /\ \A j \in StartIds : j < i => starts[j] # "idle"
    /\ starts' = [starts EXCEPT ![i] = startEntry]
    /\ flow' = [newFlow(flow.n + 1, "connect", i, startEntry) EXCEPT
                  !.error = IF startEntry = "rejected"
                            THEN Failure("MissingWallet", 0, NoBody)
                            ELSE NoError]
    /\ reqs' = IF startEntry = "invoice"
               THEN <<ConnectInvoiceRequest(setup.duration)>>
               ELSE <<>>
    /\ emitted' = <<>>
    /\ wsEmitted' = <<>>
    /\ stopInflight' = FALSE
    /\ UNCHANGED <<session, cycles, static>>

\* {type:'expiry_soon'} arrives: handleMessage, and extendSessionWithRetry up
\* to the await of getExtendInvoice
PayExpirySoon(s) ==
    /\ setup.client = "bridge"
    /\ CanCall
    /\ sockets[s].readyState \in {"OPEN", "CLOSING"}
    /\ handleMessage("expiry_soon")
    /\ wsEmit("message")
    /\ LET c == CHOOSE c \in CycleIds :
                  /\ cycles[c].pc = "idle"
                  /\ \A d \in CycleIds : d < c => cycles[d].pc # "idle"
       IN  /\ flow' = [newFlow(flow.n + 1, "extend", c, "invoice") EXCEPT
                         !.token = currentToken]
           /\ reqs' = <<ExtendInvoiceRequest(setup.duration, currentToken)>>
    /\ UNCHANGED <<session, starts, static, stopInflight>>

\* _extract(type, url) up to the await of _getInvoice, or to its throw
extractCall(type, url) ==
    /\ LET e == extractEntry(type, url) IN
         /\ flow' = [newFlow(flow.n + 1, "extract", 0,
                             IF e = "invoice" THEN "invoice" ELSE "rejected")
                       EXCEPT !.type = type, !.url = url,
                              !.error = IF e = "invoice" THEN NoError
                                        ELSE Failure(e, 0, NoBody)]
         /\ reqs' = IF e = "invoice"
                    THEN <<DiffbotRequest(type, url, setup.network, NoHeader)>>
                    ELSE <<>>
    /\ emitted' = <<>>
    /\ wsEmitted' = <<>>
    /\ UNCHANGED <<session, starts, cycles, stopInflight>>

\* extractArticle / extractProduct / extractDiscussion / extractImage (url)
\* of the followed DiffbotClient
PayExtractCall(type, url) ==
    /\ setup.client = "diffbot"
    /\ CanCall
    /\ extractCall(type, url)
    /\ UNCHANGED static

\* bodies of the replies to a paid request: a 200 to connect or extend is a
\* session with a fresh access_token; other replies are a text or an object
PaidBodies(status) ==
    IF status = PaidStatus /\ flow.op \in {"connect", "extend"}
    THEN {[kind |-> "object", access_token |-> nextToken + 1]}
    ELSE {[kind |-> "object", access_token |-> 0],
          [kind |-> "text", access_token |-> 0]}

\* faulty variant: _extract rethrows without emitting 'error'
flowFailed_silent(fl, err) ==
    /\ flow' = [fl EXCEPT !.pc = "rejected", !.error = err]
    /\ CASE fl.op = "connect" ->
              /\ starts' = [starts EXCEPT ![fl.id] = "rejected"]
              /\ emitted' = <<"error">>
              /\ UNCHANGED cycles
         [] fl.op = "extend" ->
              /\ attemptFailed(fl.id, errorMessage(err.status, Generic))
              /\ UNCHANGED starts
         [] OTHER ->
              /\ emitted' = <<>>
              /\ UNCHANGED <<starts, cycles>>
    /\ UNCHANGED session

\* the operation throws err: the catch block of start(), of
\* extendSessionWithRetry() or of _extract()
flowFailed(fl, err) ==
    /\ flow' = [fl EXCEPT !.pc = "rejected", !.error = err]
    /\ CASE fl.op = "connect" ->
              /\ starts' = [starts EXCEPT ![fl.id] = "rejected"]
              /\ emitted' = <<"error">>
              /\ UNCHANGED cycles
         [] fl.op = "extend" ->
              /\ attemptFailed(fl.id, errorMessage(err.status, Generic))
              /\ UNCHANGED starts
         [] OTHER ->
              /\ emitted' = <<"error">>
              /\ UNCHANGED <<starts, cycles>>
    /\ UNCHANGED session

\* the operation goes on to its next await
flowGoesOn(fl) ==
    /\ flow' = fl
    /\ emitted' = <<>>
    /\ UNCHANGED <<starts, cycles, session>>

\* the paid request has returned json: the rest of start(), of the try block
\* of extendSessionWithRetry(), or of _extract()
flowPaid(fl, json) ==
    /\ flow' = [fl EXCEPT !.pc = "returned", !.result = json]
    /\ CASE fl.op = "connect" ->
              /\ starts' = [starts EXCEPT ![fl.id] = "done"]
              /\ nextToken' = nextToken + 1
              /\ startConnected(fl.id, json.access_token)
              /\ UNCHANGED cycles
         [] fl.op = "extend" ->
              /\ nextToken' = nextToken + 1
              /\ attemptSucceeded(fl.id, json.access_token)
              /\ UNCHANGED <<starts, isRunning, wsManager>>
         [] OTHER ->
              /\ emitted' = <<"extraction">>
              /\ UNCHANGED <<starts, cycles, session>>

\* accepts.asset || this.solUsdcMint
mintOf(accepts) == IF accepts.asset # None THEN accepts.asset ELSE solUsdcMint

\* feePayerStr is known: new PublicKey(...) of the fee payer, the mint and
\* payTo, BigInt(maxAmountRequired), and the call of buildExactPaymentTx
toBuild(fl, feePayerStr) ==
    IF fl.invoice.payTo = None \/ fl.invoice.maxAmountRequired = <<>>
    THEN flowFailed(fl, Failure("InvalidInvoice", 0, NoBody))
    ELSE flowGoesOn([fl EXCEPT !.pc = "build", !.feePayer = feePayerStr])

\* payInvoice / extendSession / _payInvoice up to the first await: the fee
\* payer of the invoice or of the environment, else the facilitator is asked
payInvoice(fl) ==
    LET feePayerStr == localFeePayer(fl.invoice, setup.SOL_FEE_PAYER) IN
    IF feePayerStr # None
    THEN toBuild(fl, feePayerStr) /\ UNCHANGED reqs
    ELSE /\ flowGoesOn([fl EXCEPT !.pc = "facilitator"])
         /\ reqs' = Append(reqs, SupportedRequest)

\* the invoice request returns: getInvoice / getExtendInvoice / _getInvoice
\* after the await, and the caller up to its next await
PayInvoiceReply(status, body) ==
    /\ flow.pc = "invoice"
    /\ IF ~isInvoice(status)
       THEN /\ flowFailed([flow EXCEPT !.reply = Reply("invoice", status, body)],
                          requestError("NoInvoice", status, body))
            /\ UNCHANGED reqs
       ELSE LET fl == [flow EXCEPT !.reply = Reply("invoice", status, body),
                                   !.invoice = invoiceOf(body),
                                   !.invoiceBy = flow.n,
                                   !.token = IF flow.op = "extend"
                                             THEN currentToken ELSE 0]
            IN  IF fl.op = "extract" /\ fl.invoice.maxAmountRequired = <<>>
                THEN /\ flowFailed(fl, Failure("InvalidInvoice", 0, NoBody))
                     /\ UNCHANGED reqs
                ELSE payInvoice(fl)
    /\ wsEmitted' = <<>>
    /\ UNCHANGED <<static, stopInflight>>

\* fetchSupportedFeePayer returns, and the caller up to its next await
PayFacilitatorReply(status, json) ==
    /\ flow.pc = "facilitator"
    /\ LET feePayerStr == fetchSupportedFeePayer(status, json)
           fl == [flow EXCEPT !.reply = Reply("supported", status, json)]
       IN  IF feePayerStr = None
           THEN flowFailed(fl, Failure("MissingFeePayer", 0, NoBody))
           ELSE toBuild(fl, feePayerStr)
    /\ wsEmitted' = <<>>
    /\ UNCHANGED <<reqs, static, stopInflight>>

\* the paid request of the operation
paidRequest(fl) ==
    CASE fl.op = "connect" -> ConnectPaidRequest(fl.invoice, fl.header)
      [] fl.op = "extend"  -> ExtendPaidRequest(fl.invoice, fl.token, fl.header)
      [] OTHER -> DiffbotRequest(fl.type, fl.url, setup.network, fl.header)

\* buildExactPaymentTx returns or throws; the transaction is signed, put in
\* the payment header, and the paid request is issued
PayBuildReturn(ledger) ==
    /\ flow.pc = "build"
    /\ LET accepts == flow.invoice
           built == buildExactPaymentTx(ledger, payerPublicKey, flow.feePayer,
                                        accepts.payTo, mintOf(accepts),
                                        BigInt(accepts.maxAmountRequired), TRUE)
           rpcs  == buildRpcs(ledger, TRUE)
           rq    == reqs \o [k \in 1..Len(rpcs) |-> Rpc(rpcs[k])]
       IN  IF built.error # None
           THEN /\ flowFailed([flow EXCEPT !.reply = NoReply],
                              Failure(built.error, 0, NoBody))
                /\ reqs' = rq
           ELSE LET fl == [flow EXCEPT
                             !.reply = NoReply,
                             !.pc = "paid",
                             !.headerBy = flow.n,
                             !.header = XPAYMENT(sign(built.tx, payerPublicKey))]
                IN  /\ flowGoesOn(fl)
                    /\ reqs' = Append(rq, paidRequest(fl))
    /\ wsEmitted' = <<>>
    /\ UNCHANGED <<static, stopInflight>>

\* the paid request returns: payInvoice / extendSession / _getExtraction after
\* the await, and the caller to its end
PayPaidReply(status, body) ==
    /\ flow.pc = "paid"
    /\ body \in PaidBodies(status)
    /\ LET fl == [flow EXCEPT !.reply = Reply("paid", status, body)] IN
       IF ~isPaid(status)
       THEN flowFailed(fl, requestError("PaymentFailed", status, body))
       ELSE flowPaid(fl, body)
    /\ wsEmitted' = <<>>
    /\ UNCHANGED <<reqs, static, stopInflight>>

AnyPaidBody == UNION {PaidBodies(st) : st \in Statuses}

\* faulty variant: the next attempt pays with what the failed one had made
retryFlow_reuse(fl, n, token) == [fl EXCEPT !.n = n, !.pc = "paid"]

\* the next iteration of the loop of extendSessionWithRetry: extInvoice and
\* the locals of extendSession are bound anew
retryFlow(fl, n, token) ==
    [newFlow(n, "extend", fl.id, "invoice") EXCEPT !.token = token]

\* the backoff of the followed renewal cycle is over: retryDelay *= 2,
\* attempt++, and the next iteration up to the await of getExtendInvoice
PayBackoffElapsed(c) ==
    /\ setup.client = "bridge"
    /\ flow.op = "extend" /\ flow.id = c /\ flow.pc = "rejected"
    /\ flow.n < budget
    /\ cycles[c].pc = "wait"
    /\ LET cy == nextIteration([cycles[c] EXCEPT
                                 !.retryDelay = nextRetryDelay(@)])
       IN  /\ cycles' = [cycles EXCEPT ![c] = cy]
           /\ IF cy.pc = "invoice"
              THEN /\ flow' = retryFlow(flow, flow.n + 1, currentToken)
                   /\ reqs' = <<ExtendInvoiceRequest(setup.duration,
                                                     currentToken)>>
              ELSE UNCHANGED <<flow, reqs>>
    /\ emitted' = <<>>
    /\ wsEmitted' = <<>>
    /\ UNCHANGED <<session, starts, static, stopInflight>>

NextPay ==
    \/ \E i \in StartIds : PayStartCall(i)
    \/ \E s \in SocketIds : SocketOpen(s)
    \/ \E s \in SocketIds : PayExpirySoon(s)
    \/ \E t \in ExtractionTypes, u \in Urls : PayExtractCall(t, u)
    \/ \E st \in Statuses, b \in InvoiceBodies : PayInvoiceReply(st, b)
    \/ \E st \in Statuses, j \in SupportedBodies : PayFacilitatorReply(st, j)
    \/ \E l \in Ledgers : PayBuildReturn(l)
    \/ \E st \in Statuses, b \in AnyPaidBody : PayPaidReply(st, b)

\* one client object and its paid operations, request by request
SpecPay == InitPay /\ [][NextPay]_vars

\* calls followed in a run with a retried renewal: start(), the first attempt
\* of a renewal cycle and its retry
MaxRetryCalls == 3

InitRetry ==
    /\ Constructed
    /\ retryAttempts = RetryOption(2)
    /\ autoRenew
    /\ wallet
    /\ Configured
    /\ setup.SOL_FEE_PAYER = None
    /\ budget = MaxRetryCalls

\* replies to the invoice request, to /supported and of the RPC node
RetryInvoiceBodies ==
    {b \in InvoiceBodies :
        /\ b.kind = "accepts"
        /\ b.accepts # <<>>
        /\ b.accepts[1].minutes = 0
        /\ b.accepts[1].asset = None}

RetrySupportedBodies ==
    {j \in SupportedBodies : j.kind = "object" /\ Len(j.kinds) <= 1}

RetryLedgers == {l \in Ledgers : ~l.token2022 /\ l.decimals = 6 /\ l.destAta}

NextRetry ==
    \/ \E i \in StartIds : PayStartCall(i)
    \/ \E s \in SocketIds : SocketOpen(s)
    \/ \E s \in SocketIds : PayExpirySoon(s)
    \/ \E t \in ExtractionTypes, u \in Urls : PayExtractCall(t, u)
    \/ \E st \in Statuses, b \in RetryInvoiceBodies : PayInvoiceReply(st, b)
    \/ \E st \in Statuses, j \in RetrySupportedBodies :
          PayFacilitatorReply(st, j)
    \/ \E l \in RetryLedgers : PayBuildReturn(l)
    \/ \E st \in Statuses, b \in AnyPaidBody : PayPaidReply(st, b)
    \/ \E c \in CycleIds : PayBackoffElapsed(c)

\* one client, its paid operations and the retries of its renewal cycles
SpecRetry == InitRetry /\ [][NextRetry]_vars

\* the renewal cycle the followed operation belongs to, if any
followedCycle == IF flow.op = "extend" THEN flow.id ELSE 0

\* one more {type:'expiry_soon'} arrives while the followed renewal attempt
\* is at one of its awaits
RaceExpirySoon(s) ==
    /\ flow.op = "extend"
    /\ flow.pc \notin Terminal
    /\ SocketMessage(s, "expiry_soon")

\* the awaits of a renewal cycle that runs next to the followed operation
RaceInvoiceReturn(c, status) ==
    c # followedCycle /\ ExtInvoiceReturn(c, status, Generic)

RacePayReturn(c, status) ==
    c # followedCycle /\ ExtPayReturn(c, status, Generic)

InitRace ==
    /\ Constructed
    /\ retryAttempts = RetryOption(1)
    /\ autoRenew
    /\ wallet
    /\ Configured
    /\ setup.client = "bridge"
    /\ setup.SOL_FEE_PAYER = None
    /\ budget = MaxRetryCalls

NextRace ==
    \/ \E i \in StartIds : PayStartCall(i)
    \/ \E s \in SocketIds : SocketOpen(s)
    \/ \E s \in SocketIds : PayExpirySoon(s)
    \/ \E s \in SocketIds : RaceExpirySoon(s)
    \/ \E c \in CycleIds, st \in Statuses : RaceInvoiceReturn(c, st)
    \/ \E c \in CycleIds, st \in Statuses : RacePayReturn(c, st)
    \/ \E st \in Statuses, b \in RetryInvoiceBodies : PayInvoiceReply(st, b)
    \/ \E st \in Statuses, j \in RetrySupportedBodies :
          PayFacilitatorReply(st, j)
    \/ \E l \in RetryLedgers : PayBuildReturn(l)
    \/ \E st \in Statuses, b \in AnyPaidBody : PayPaidReply(st, b)

\* one Bridge402Client followed request by request, and the renewal cycles
\* that further expiry warnings begin next to its renewal attempt
SpecRace == InitRace /\ [][NextRace]_vars

(***************************************************************************)
(* buildExactPaymentTx called by the application itself, with either value *)
(* of createRecipientATAIfMissing, next to the runs of the two clients.    *)
(***************************************************************************)
\* arguments of a direct call
BuildArgs ==
    [payerPublicKey : {payerPublicKey}, feePayerPublicKey : {"FPenv", "FPinvoice"},
     recipientPublicKey : {"Merchant"}, mintPublicKey : {solUsdcMint, "MintOther"},
     amountAtomic : {7, 120}, createRecipientATAIfMissing : BOOLEAN]

NoArgs ==
    [payerPublicKey |-> None, feePayerPublicKey |-> None,
     recipientPublicKey |-> None, mintPublicKey |-> None,
     amountAtomic |-> 0, createRecipientATAIfMissing |-> FALSE]

NoLedger ==
    [token2022 |-> FALSE, decimals |-> 0, sourceAta |-> FALSE, destAta |-> FALSE]

\* a direct call in progress: its arguments, what the chain answered, and
\* what the call returned or threw
directCall(n, pc, args) ==
    [pc |-> pc, n |-> n, op |-> "build", args |-> args, ledger |-> NoLedger,
     tx |-> NoTx, error |-> NoError]

InitDirect ==
    /\ Constructed
    /\ retryAttempts = RetryOption(1)
    /\ autoRenew
    /\ setup = [followed |-> TRUE, client |-> "builder"]
    /\ webhook = NoWebhook
    /\ flow = directCall(0, "idle", NoArgs)
    /\ reqs = <<>>
    /\ budget = MaxCalls

\* buildExactPaymentTx({...}) up to its first await
DirectBuildCall(args) ==
    /\ setup.client = "builder"
    /\ CanCall
    /\ flow' = directCall(flow.n + 1, "rpc", args)
    /\ reqs' = <<>>
    /\ emitted' = <<>>
    /\ wsEmitted' = <<>>
    /\ UNCHANGED <<session, starts, cycles, static, stopInflight>>

\* the RPC calls are answered from ledger: the call returns or throws
DirectBuildReturn(ledger) ==
    /\ setup.client = "builder"
    /\ flow.pc = "rpc"
    /\ LET a == flow.args
           built == buildExactPaymentTx(ledger, a.payerPublicKey,
                        a.feePayerPublicKey, a.recipientPublicKey,
                        a.mintPublicKey, a.amountAtomic,
                        a.createRecipientATAIfMissing)
           rpcs == buildRpcs(ledger, a.createRecipientATAIfMissing)
       IN  /\ flow' = [flow EXCEPT
                         !.pc = IF built.error # None THEN "rejected" ELSE "returned",
                         !.ledger = ledger,
                         !.tx = built.tx,
                         !.error = Failure(built.error, 0, NoBody)]
           /\ reqs' = [k \in 1..Len(rpcs) |-> Rpc(rpcs[k])]
    /\ emitted' = <<>>
    /\ wsEmitted' = <<>>
    /\ UNCHANGED <<session, starts, cycles, static, stopInflight>>

InitBuild == InitPay \/ InitDirect

NextBuild ==
    \/ NextPay
    \/ \E a \in BuildArgs : DirectBuildCall(a)
    \/ \E l \in Ledgers : DirectBuildReturn(l)

\* the two clients and the direct calls of buildExactPaymentTx
SpecBuild == InitBuild /\ [][NextBuild]_vars

(***************************************************************************)
(* The X-PAYMENT header byte by byte: Buffer base64, JSON.stringify and    *)
(* JSON.parse over sequences of bytes and of ASCII codes.                  *)
(***************************************************************************)
\* longest serialized transaction, in bytes
MaxBytes == 4

\* byte values of a serialized transaction
ByteValues == {0, 1, 77, 255}

RECURSIVE ByteSeqs(_)
ByteSeqs(n) ==
    IF n = 0 THEN {<<>>}
    ELSE ByteSeqs(n - 1)
         \cup {Append(b, v) : b \in {x \in ByteSeqs(n - 1) : Len(x) = n - 1},
                              v \in ByteValues}

\* the character (ASCII code) of a 6-bit value: A-Z, a-z, 0-9, + and /
b64char(i) ==
    IF i < 26 THEN 65 + i
    ELSE IF i < 52 THEN 71 + i
    ELSE IF i < 62 THEN i - 4
    ELSE IF i = 62 THEN 43 ELSE 47

\* the 6-bit value of a character of the alphabet
b64index(c) ==
    IF c >= 65 /\ c <= 90 THEN c - 65
    ELSE IF c >= 97 /\ c <= 122 THEN c - 71
    ELSE IF c >= 48 /\ c <= 57 THEN c + 4
    ELSE IF c = 43 THEN 62 ELSE 63

\* faulty variant: the low bits of a last single byte are dropped
RECURSIVE toBase64_lowBits(_)
toBase64_lowBits(bytes) ==
    IF bytes = <<>> THEN <<>>
    ELSE IF Len(bytes) = 1
    THEN <<b64char(bytes[1] \div 4), b64char(0), 61, 61>>
    ELSE IF Len(bytes) = 2
    THEN <<b64char(bytes[1] \div 4),
           b64char((bytes[1] % 4) * 16 + bytes[2] \div 16),
           b64char((bytes[2] % 16) * 4), 61>>
    ELSE <<b64char(bytes[1] \div 4),
           b64char((bytes[1] % 4) * 16 + bytes[2] \div 16),
           b64char((bytes[2] % 16) * 4 + bytes[3] \div 64),
           b64char(bytes[3] % 64)>>
         \o toBase64_lowBits(SubSeq(bytes, 4, Len(bytes)))

\* Buffer.from(bytes).toString('base64'): three bytes give four characters,
\* a last group of one or two bytes is padded with '='
RECURSIVE toBase64(_)
toBase64(bytes) ==
    IF bytes = <<>> THEN <<>>
    ELSE IF Len(bytes) = 1
    THEN <<b64char(bytes[1] \div 4), b64char((bytes[1] % 4) * 16), 61, 61>>
    ELSE IF Len(bytes) = 2
    THEN <<b64char(bytes[1] \div 4),
           b64char((bytes[1] % 4) * 16 + bytes[2] \div 16),
           b64char((bytes[2] % 16) * 4), 61>>
    ELSE <<b64char(bytes[1] \div 4),
           b64char((bytes[1] % 4) * 16 + bytes[2] \div 16),
           b64char((bytes[2] % 16) * 4 + bytes[3] \div 64),
           b64char(bytes[3] % 64)>>
         \o toBase64(SubSeq(bytes, 4, Len(bytes)))

\* Buffer.from(text, 'base64'): four characters give three bytes, fewer when
\* the group ends with '='
RECURSIVE fromBase64(_)
fromBase64(text) ==
    IF Len(text) < 4 THEN <<>>
    ELSE LET a == b64index(text[1])
             b == b64index(text[2])
             c == b64index(text[3])
             d == b64index(text[4])
             first == <<a * 4 + b \div 16>>
         IN  IF text[3] = 61 THEN first
             ELSE IF text[4] = 61
             THEN first \o <<(b % 16) * 16 + c \div 4>>
             ELSE first \o <<(b % 16) * 16 + c \div 4, (c % 4) * 64 + d>>
                  \o fromBase64(SubSeq(text, 5, Len(text)))

\* the texts of the header object, as ASCII codes
Kx402Version == <<120, 52, 48, 50, 86, 101, 114, 115, 105, 111, 110>>
Kscheme == <<115, 99, 104, 101, 109, 101>>
Knetwork == <<110, 101, 116, 119, 111, 114, 107>>
Kpayload == <<112, 97, 121, 108, 111, 97, 100>>
Ktransaction == <<116, 114, 97, 110, 115, 97, 99, 116, 105, 111, 110>>
Exact == <<101, 120, 97, 99, 116>>
Solana == <<115, 111, 108, 97, 110, 97>>

\* a string literal: '"' and '\' are escaped
RECURSIVE escape(_)
escape(s) ==
    IF s = <<>> THEN <<>>
    ELSE (IF s[1] \in {34, 92} THEN <<92, s[1]>> ELSE <<s[1]>>) \o escape(Tail(s))

quoted(s) == <<34>> \o escape(s) \o <<34>>

\* "key":value
member(key, value) == quoted(key) \o <<58>> \o value

\* JSON.stringify(x402)
JSONstringify(x) ==
    <<123>> \o member(Kx402Version, <<48 + x.x402Version>>)
    \o <<44>> \o member(Kscheme, quoted(x.scheme))
    \o <<44>> \o member(Knetwork, quoted(x.network))
    \o <<44>> \o member(Kpayload,
                        <<123>> \o member(Ktransaction,
                                          quoted(x.payload.transaction))
                        \o <<125>>)
    \o <<125>>

\* the string literal whose first character is text[i]: its value and the
\* position after its closing quote
RECURSIVE readString(_, _, _)
readString(text, i, acc) ==
    IF i > Len(text) THEN [value |-> acc, next |-> i]
    ELSE IF text[i] = 34 THEN [value |-> acc, next |-> i + 1]
    ELSE IF text[i] = 92 /\ i < Len(text)
    THEN readString(text, i + 2, Append(acc, text[i + 1]))
    ELSE readString(text, i + 1, Append(acc, text[i]))

\* the strings and the digits of a JSON text from position i on, in order
RECURSIVE tokens(_, _)
tokens(text, i) ==
    IF i > Len(text) THEN <<>>
    ELSE IF text[i] = 34
    THEN LET r == readString(text, i + 1, <<>>) IN
         <<[kind |-> "string", text |-> r.value, num |-> 0]>>
         \o tokens(text, r.next)
    ELSE IF text[i] \in 48..57
    THEN <<[kind |-> "number", text |-> <<>>, num |-> text[i] - 48]>>
         \o tokens(text, i + 1)
    ELSE tokens(text, i + 1)

\* the header object before it is built or parsed
NoX402 == [x402Version |-> 0, scheme |-> <<>>, network |-> <<>>,
           payload |-> [transaction |-> <<>>]]

\* JSON.parse(text) of a text that holds a header object
JSONparse(text) ==
    LET tk == tokens(text, 1) IN
    IF /\ Len(tk) = 9
       /\ tk[1].text = Kx402Version /\ tk[2].kind = "number"
       /\ tk[3].text = Kscheme /\ tk[5].text = Knetwork
       /\ tk[7].text = Kpayload /\ tk[8].text = Ktransaction
    THEN [x402Version |-> tk[2].num, scheme |-> tk[4].text,
          network |-> tk[6].text, payload |-> [transaction |-> tk[9].text]]
    ELSE NoX402

\* const x402 = { x402Version: 1, scheme: 'exact', network: 'solana',
\*                payload: { transaction: b64 } }
x402(b64) ==
    [x402Version |-> X402Version, scheme |-> Exact, network |-> Solana,
     payload |-> [transaction |-> b64]]

\* PaymentManager.payInvoice: b64, x402 and XPAYMENT
payInvoiceHeader(signed) == toBase64(JSONstringify(x402(toBase64(signed))))

\* PaymentManager.extendSession: b64, x402 and XPAYMENT
extendSessionHeader(signed) == toBase64(JSONstringify(x402(toBase64(signed))))

\* DiffbotClient._payInvoice: b64, x402 and XPAYMENT
diffbotHeader(signed) == toBase64(JSONstringify(x402(toBase64(signed))))

\* the header a payment flow builds from the serialized signed transaction
paymentHeader(op, signed) ==
    CASE op = "connect" -> payInvoiceHeader(signed)
      [] op = "extend"  -> extendSessionHeader(signed)
      [] OTHER          -> diffbotHeader(signed)

\* a header being built and read back: the flow that builds it, the
\* serialized transaction, the header, and what a reader gets out of it
coded(pc, op, signed, header, object, bytes) ==
    [pc |-> pc, op |-> op, signed |-> signed, header |-> header,
     x402 |-> object, bytes |-> bytes]

InitCodec ==
    /\ Constructed
    /\ retryAttempts = RetryOption(1)
    /\ autoRenew
    /\ wallet
    /\ setup = [followed |-> TRUE, client |-> "codec"]
    /\ webhook = NoWebhook
    /\ \E op \in {"connect", "extend", "extract"}, b \in ByteSeqs(MaxBytes) :
          flow = coded("signed", op, b, <<>>, NoX402, <<>>)
    /\ reqs = <<>>
    /\ budget = 0

\* tx.serialize() has given flow.signed: the header is built
EncodeHeader ==
    /\ setup.client = "codec"
    /\ flow.pc = "signed"
    /\ flow' = [flow EXCEPT !.pc = "encoded",
                            !.header = paymentHeader(flow.op, flow.signed)]
    /\ UNCHANGED <<reqs, emitted, wsEmitted, session, starts, cycles, static,
                   stopInflight>>

\* the receiver decodes the header, parses it and decodes the transaction
DecodeHeader ==
    /\ setup.client = "codec"
    /\ flow.pc = "encoded"
    /\ LET object == JSONparse(fromBase64(flow.header)) IN
       flow' = [flow EXCEPT !.pc = "decoded",
                            !.x402 = object,
                            !.bytes = fromBase64(object.payload.transaction)]
    /\ UNCHANGED <<reqs, emitted, wsEmitted, session, starts, cycles, static,
                   stopInflight>>

NextCodec == EncodeHeader \/ DecodeHeader

\* the payment header of each flow, built and read back
SpecCodec == InitCodec /\ [][NextCodec]_vars

(***************************************************************************)
(* DiffbotClient.batchExtract                                              *)
(***************************************************************************)
\* targets of a batch: one that _extract accepts and one that it rejects
BatchUrls == {HttpsPrefix \o <<"a">>, <<"a", ".", "b">>}

\* the lists of at most n targets
RECURSIVE UrlLists(_)
UrlLists(n) ==
    IF n = 0 THEN {<<>>}
    ELSE UrlLists(n - 1)
         \cup {Append(l, u) : l \in {x \in UrlLists(n - 1) : Len(x) = n - 1},
                               u \in BatchUrls}

\* kinds a batch may be called with: the four of the switch, and another
BatchTypes == ExtractionTypes \cup {"video"}

\* { url, success: true, data: result } or
\* { url, success: false, error: error.message }
outcome(url, success, data, error) ==
    [url |-> url, success |-> success, data |-> data, error |-> error]

\* faulty variant: the newest outcome is put in front
push_front(results, o) == <<o>> \o results

\* results.push(o)
push(results, o) == Append(results, o)

\* the default branch of the switch throws in every iteration, and the catch
\* block records it: the loop runs to its end without an await
allInvalid(urls) ==
    [k \in 1..Len(urls) |->
        outcome(urls[k], FALSE, NoBody, Failure("InvalidType", 0, NoBody))]

\* the loop of batchExtract from iteration b.i to its next await or its return
batchLoop(b) ==
    IF b.i > Len(b.urls)
    THEN /\ batch' = [b EXCEPT !.pc = "returned"]
         /\ emitted' = <<>>
         /\ wsEmitted' = <<>>
         /\ UNCHANGED <<flow, reqs, session, starts, cycles, stopInflight>>
    ELSE /\ batch' = [b EXCEPT !.pc = "await"]
         /\ extractCall(b.type, b.urls[b.i])

\* batchExtract(extractionType, urls) up to its first await
BatchCall(type, urls) ==
    /\ setup.client = "diffbot"
    /\ batch.pc = "idle"
    /\ flow.pc = "idle"
    /\ LET b == [NoBatch EXCEPT !.type = type, !.urls = urls, !.i = 1] IN
       IF urls = <<>> \/ type \notin ExtractionTypes
       THEN /\ batch' = IF urls = <<>>
                        THEN [b EXCEPT !.pc = "rejected"]
                        ELSE [b EXCEPT !.pc = "returned",
                                       !.i = Len(urls) + 1,
                                       !.results = allInvalid(urls)]
            /\ emitted' = <<>>
            /\ wsEmitted' = <<>>
            /\ UNCHANGED <<flow, reqs, session, starts, cycles, stopInflight>>
       ELSE batchLoop(b)
    /\ UNCHANGED fixed

\* the awaited extraction has settled: the outcome is recorded and the loop
\* goes on
BatchResume ==
    /\ batch.pc = "await"
    /\ flow.pc \in {"returned", "rejected"}
    /\ LET url == batch.urls[batch.i]
           o == IF flow.pc = "returned"
                THEN outcome(url, TRUE, flow.result, NoError)
                ELSE outcome(url, FALSE, NoBody, flow.error)
       IN  batchLoop([batch EXCEPT !.results = push(@, o), !.i = @ + 1])
    /\ UNCHANGED fixed

InitBatch ==
    /\ InitPay
    /\ setup.client = "diffbot"
    /\ setup.network = NetworkOption(None)

\* what the server, the facilitator and the chain answer during a batch
BatchInvoiceBodies ==
    {b \in InvoiceBodies :
        /\ b.kind = "accepts"
        /\ b.accepts # <<>>
        /\ b.accepts[1].minutes = 0
        /\ b.accepts[1].asset = None
        /\ b.accepts[1].maxAmountRequired = <<7>>}

BatchSupportedBodies ==
    {j \in SupportedBodies : j.kind = "object" /\ Len(j.kinds) <= 1}

BatchLedgers ==
    {l \in Ledgers : ~l.token2022 /\ l.decimals = 6 /\ l.destAta}

NextBatch ==
    \/ \E t \in BatchTypes, l \in UrlLists(MaxCalls) : BatchCall(t, l)
    \/ BatchResume
    \/ \E st \in Statuses, b \in BatchInvoiceBodies : PayInvoiceReply(st, b)
    \/ \E st \in Statuses, j \in BatchSupportedBodies :
          PayFacilitatorReply(st, j)
    \/ \E l \in BatchLedgers : PayBuildReturn(l)
    \/ \E st \in Statuses, b \in AnyPaidBody : PayPaidReply(st, b)

\* one DiffbotClient and one batch
SpecBatch == InitBatch /\ [][NextBatch]_vars

(***************************************************************************)
(* on / off / emit of Bridge402Client and of DiffbotClient (the same code)  *)
(***************************************************************************)
\* handlers registered per event at most
MaxHandlers == 2

\* the functions an application registers: the second one throws
Handlers == {[id |-> 1, throws |-> FALSE], [id |-> 2, throws |-> TRUE],
             [id |-> 3, throws |-> FALSE]}

\* on(event, handler)
on(handlers, event, handler) ==
    [handlers EXCEPT ![event] = Append(@, handler)]

\* off(event, handler)
off(handlers, event, handler) ==
    [handlers EXCEPT ![event] = SelectSeq(@, LAMBDA h : h # handler)]

\* faulty variant: the exception of a handler ends the iteration and escapes
caught_rethrown(handler, rest) ==
    IF handler.throws
    THEN [calls |-> <<handler>>, thrown |-> TRUE]
    ELSE [calls |-> <<handler>> \o rest.calls, thrown |-> rest.thrown]

\* try { handler(data) } catch (error) { console.error(...) }, and then the
\* rest of the iteration
caught(handler, rest) ==
    [calls |-> <<handler>> \o rest.calls, thrown |-> rest.thrown]

\* this.eventHandlers[event].forEach(...)
RECURSIVE forEach(_)
forEach(list) ==
    IF list = <<>> THEN [calls |-> <<>>, thrown |-> FALSE]
    ELSE caught(Head(list), forEach(Tail(list)))

\* emit(event, data): the calls it makes and whether an exception escapes it
emit(handlers, event) ==
    LET r == forEach(handlers[event]) IN
    [event |-> event, registered |-> handlers[event], calls |-> r.calls,
     thrown |-> r.thrown]

\* what on, off and emit leave alone
untouched == <<retryAttempts, autoRenew, wallet, budget, setup, flow, reqs,
               batch, webhook, forwards, received, session, starts, cycles,
               stops,
               stopInflight, wsEmitted>>

On(event, handler) ==
    /\ Len(eventHandlers[event]) < MaxHandlers
    /\ eventHandlers' = on(eventHandlers, event, handler)
    /\ delivered' = NoDelivery
    /\ emitted' = <<>>
    /\ UNCHANGED untouched

Off(event, handler) ==
    /\ eventHandlers' = off(eventHandlers, event, handler)
    /\ delivered' = NoDelivery
    /\ emitted' = <<>>
    /\ UNCHANGED untouched

Emit(event) ==
    /\ delivered' = emit(eventHandlers, event)
    /\ emitted' = <<event>>
    /\ UNCHANGED <<eventHandlers, untouched>>

InitEvents ==
    /\ Constructed
    /\ retryAttempts = RetryOption(0)
    /\ autoRenew
    /\ wallet
    /\ webhook = NoWebhook
    /\ setup \in {[followed |-> FALSE, client |-> c] : c \in {"bridge", "diffbot"}}
    /\ flow = NoFlow
    /\ reqs = <<>>
    /\ budget = 0

NextEvents ==
    \/ \E e \in Events, h \in Handlers : On(e, h)
    \/ \E e \in Events, h \in Handlers : Off(e, h)
    \/ \E e \in Events : Emit(e)

\* a client object and the handlers of its application
SpecEvents == InitEvents /\ [][NextEvents]_vars

(***************************************************************************)
(* Properties                                                              *)
(***************************************************************************)
RECURSIVE Pow2(_)
Pow2(n) == IF n = 0 THEN 1 ELSE 2 * Pow2(n - 1)

LiveStates == {"CONNECTING", "OPEN"}

\* C1: at most one renewal cycle is in flight per client: an expiry warning
\* that arrives while extendSessionWithRetry is suspended starts no second
\* cycle.
C1_OneRenewalInFlight ==
    Cardinality({c \in CycleIds : CycleInFlight(c)}) <= 1

\* attempts of a cycle that have failed so far
FailedAttempts(cy) ==
    IF cy.pc \in {"invoice", "pay"} \/ cy.extended THEN cy.tries - 1 ELSE cy.tries

\* C2: a renewal cycle makes at most retryAttempts extend attempts;
\* 'sessionRenewalFailed' is emitted exactly once, on the failure of attempt
\* number retryAttempts, after which the cycle is over.
C2_AttemptsBounded ==
    \A c \in CycleIds :
        LET cy == cycles[c] IN
        /\ cy.tries <= retryAttempts
        /\ cy.failedEmits <= 1
        /\ (cy.failedEmits = 1) <=> (cy.pc = "done" /\ ~cy.extended)
        /\ (cy.failedEmits = 1) =>
              /\ FailedAttempts(cy) = retryAttempts
              /\ cy.tries = retryAttempts
        /\ (cy.pc # "idle" /\ FailedAttempts(cy) = retryAttempts) => cy.pc = "done"

C2_Witness ==
    \E c \in CycleIds :
        /\ retryAttempts = 3
        /\ cycles[c].pc = "done"
        /\ cycles[c].tries = 3
        /\ cycles[c].failedEmits = 1
        /\ emitted = <<"sessionRenewalFailed">>

\* C3: the wait after the k-th failed attempt (k < retryAttempts) is
\* 1000 * 2^(k-1) ms; there is no wait before the first attempt, after a
\* successful attempt or after the last failed attempt.
C3_BackoffDelays ==
    \A c \in CycleIds :
        LET cy == cycles[c]
            f  == FailedAttempts(cy)
        IN  cy.pc # "idle" =>
              /\ \A k \in 1..Len(cy.waits) : cy.waits[k] = 1000 * Pow2(k - 1)
              /\ Len(cy.waits) = IF f = retryAttempts THEN f - 1 ELSE f

C3_Witness ==
    \E c \in CycleIds :
        /\ cycles[c].waits = <<1000, 2000, 4000>>
        /\ cycles[c].pc = "done"
        /\ ~cycles[c].extended

\* C4: a renewal that succeeds while the client is Active leaves it Active:
\* the new token is installed, the socket held by the manager was opened
\* with it, and once the torn-down socket has delivered its close event
\* (nothing else having closed or stopped) isRunning is still true.
C4_RenewalKeepsActive ==
    \A c \in CycleIds :
        LET cy == cycles[c] IN
        ( /\ cy.extended
          /\ cy.activeAtRenew
          /\ cy.torn # 0
          /\ sockets[cy.torn].readyState = "CLOSED"
          /\ stops = 0
          /\ \A s \in SocketIds \ {cy.torn} : sockets[s].readyState \in LiveStates
          /\ \A d \in CycleIds \ {c} : ~cycles[d].extended )
        => /\ isRunning
           /\ managers[wsManager].ws # 0
           /\ sockets[managers[wsManager].ws].token = currentToken

\* C5: after stop() has returned, getStatus() reports isRunning = false,
\* isConnected = false and hasToken = false.
C5_StopLeavesIdle ==
    emitted = <<"stopped">> =>
        /\ ~getStatus.isRunning
        /\ ~getStatus.isConnected
        /\ ~getStatus.hasToken

\* C6: when stop() was called while a start() or a renewal cycle was in
\* flight, then once those have completed the client holds no open or
\* connecting socket and isRunning is false.
C6_NoDanglingConnection ==
    ( /\ stopInflight
      /\ \A i \in StartIds : ~StartInFlight(i)
      /\ \A c \in CycleIds : ~CycleInFlight(c) )
    => /\ ~isRunning
       /\ \A s \in SocketIds : sockets[s].readyState \notin LiveStates

\* C7: there are never two connect invoice/payment cycles in flight, and
\* never two WebSocketManagers of the client with a live connection.
C7_SingleSession ==
    /\ Cardinality({i \in StartIds : StartInFlight(i)}) <= 1
    /\ Cardinality({m \in StartIds :
          \E s \in SocketIds : /\ sockets[s].mgr = m
                               /\ sockets[s].readyState \in LiveStates}) <= 1

\* C8: updateToken(newToken) stores newToken; when the manager's socket is
\* open it closes that socket once and creates one new socket, whose URL
\* carries newToken; when the socket is absent, connecting, closing or closed
\* it touches no socket.
C8_UpdateToken ==
    [][ \A c \in CycleIds :
          (~cycles[c].extended /\ cycles'[c].extended /\ wsManager # 0) =>
            LET m == wsManager
                s == managers[m].ws
                t == currentToken'
            IN  /\ managers'[m].accessToken = t
                /\ IF s # 0 /\ sockets[s].readyState = "OPEN"
                   THEN /\ Len(sockets') = Len(sockets) + 1
                        /\ sockets'[s] = [sockets[s] EXCEPT !.readyState = "CLOSING"]
                        /\ \A x \in SocketIds \ {s} : sockets'[x] = sockets[x]
                        /\ sockets'[Len(sockets')] =
                              [mgr |-> m, token |-> t, readyState |-> "CONNECTING"]
                        /\ managers'[m].ws = Len(sockets')
                   ELSE /\ sockets' = sockets
                        /\ managers'[m].ws = s ]_vars

C8_Witness ==
    /\ emitted = <<"sessionRenewed">>
    /\ wsManager # 0
    /\ managers[wsManager].ws # 0
    /\ sockets[managers[wsManager].ws].readyState = "CONNECTING"
    /\ sockets[managers[wsManager].ws].token = currentToken
    /\ \E c \in CycleIds : /\ cycles[c].torn # 0
                           /\ sockets[cycles[c].torn].readyState = "CLOSING"
                           /\ sockets[cycles[c].torn].token # currentToken

\* C9: a WebSocketManager never has two sockets that can still deliver
\* message, error or close callbacks to the client: the prior socket is
\* closed before the new one is created.
C9_NoDualConnection ==
    \A m \in StartIds :
        Cardinality({s \in SocketIds : /\ sockets[s].mgr = m
                                       /\ sockets[s].readyState # "CLOSED"}) <= 1

C11_RawFramesReachOwner ==
    /\ wsEmitted = <<"sessionExpired">> =>
          IF autoRenew
          THEN \E c \in CycleIds : CycleInFlight(c)
          ELSE emitted = <<"sessionExpiring">>
    /\ wsEmitted = <<"rawMessage">> => emitted # <<>>

\* C12: once a renewal cycle has exhausted its attempts, no message that
\* arrives on the connection starts another renewal cycle.
C12_ExpiredIsTerminal ==
    \A c \in CycleIds : ~cycles[c].afterFailed

\* the target begins with 'http://' or 'https://'
HttpTarget(url) ==
    \/ (Len(url) >= 7 /\ SubSeq(url, 1, 7) = HttpPrefix)
    \/ (Len(url) >= 8 /\ SubSeq(url, 1, 8) = HttpsPrefix)

\* requests that carry a payment
PaidRequests == {k \in 1..Len(reqs) : reqs[k].payment # NoHeader}

\* C13: with no wallet, start() (the client not running) rejects with the
\* missing-wallet error, issues no request, opens no socket and leaves
\* isRunning false and currentToken null; an extraction of a valid http(s)
\* target rejects with the missing-wallet error and issues no request.
C13_NoWalletNoRequest ==
    ~wallet =>
        /\ reqs = <<>>
        /\ sockets = <<>>
        /\ ~isRunning
        /\ currentToken = 0
        /\ wsManager = 0
        /\ flow.op = "connect" =>
              /\ flow.pc = "rejected"
              /\ flow.error.name = "MissingWallet"
              /\ starts[flow.id] = "rejected"
        /\ (flow.op = "extract" /\ HttpTarget(flow.url)) =>
              /\ flow.pc = "rejected"
              /\ flow.error.name = "MissingWallet"

C13_Witness ==
    /\ ~wallet
    /\ flow.op = "connect"
    /\ flow.n = 2
    /\ flow.error.name = "MissingWallet"
    /\ starts = [i \in StartIds |-> "rejected"]

\* C14: an extraction of any kind whose target is empty or begins with
\* neither 'http://' nor 'https://' fails with the invalid-input error and
\* issues no request of any sort, with or without a wallet.
C14_InvalidTargetRejected ==
    (flow.op = "extract" /\ ~HttpTarget(flow.url)) =>
        /\ flow.pc = "rejected"
        /\ flow.error.name = "InvalidInput"
        /\ reqs = <<>>
        /\ emitted = <<>>

C14_Witness ==
    /\ ~wallet
    /\ flow.op = "extract"
    /\ flow.type = "image"
    /\ flow.url = <<"h", "t", "t", "p", ":", "a">>
    /\ flow.error.name = "InvalidInput"

\* C15: in the three flows the fee payer is the invoice's, else the
\* override's, else the facilitator's solana entry; the facilitator is asked
\* only when the first two are absent, and once; when all three are absent
\* the operation fails with the missing-fee-payer error, no RPC made and no
\* payment sent.
C15_FeePayerOrder ==
    LET accepts == flow.invoice
        env == setup.SOL_FEE_PAYER
        asked == {k \in 1..Len(reqs) : reqs[k] = SupportedRequest}
    IN  /\ flow.feePayer # None =>
              flow.feePayer = IF accepts.feePayer # None THEN accepts.feePayer
                              ELSE IF env # None THEN env
                              ELSE "FPfacilitator"
        /\ asked # {} => (accepts.feePayer = None /\ env = None)
        /\ Cardinality(asked) <= 1
        /\ (flow.feePayer # None /\ accepts.feePayer = None /\ env = None) =>
              asked # {}
        /\ flow.reply.of = "supported" =>
              LET listed == {k \in 1..Len(flow.reply.body.kinds) :
                                /\ flow.reply.body.kinds[k].network = "solana"
                                /\ flow.reply.body.kinds[k].feePayer # None}
                  found == /\ flow.reply.status = 200
                           /\ flow.reply.body.kind = "object"
                           /\ listed # {}
              IN  IF found
                  THEN flow.error.name # "MissingFeePayer"
                  ELSE flow.error.name = "MissingFeePayer"
        /\ flow.error.name = "MissingFeePayer" =>
              /\ flow.pc = "rejected"
              /\ flow.feePayer = None
              /\ accepts.feePayer = None
              /\ env = None
              /\ Len(reqs) = 2
              /\ reqs[2] = SupportedRequest
              /\ PaidRequests = {}
              /\ flow.header = NoHeader

C15_Witness ==
    /\ flow.pc = "returned"
    /\ flow.op = "extend"
    /\ flow.feePayer = "FPfacilitator"
    /\ headerTx(flow.header).payerKey = "FPfacilitator"

\* C16: an invoice request succeeds exactly when the status is 402, and then
\* gives the first entry of the body's accepts list when there is one and
\* the body itself otherwise; on any other status the operation fails with
\* an error that carries the status and the body, and nothing is paid.
C16_InvoiceOnly402 ==
    flow.reply.of = "invoice" =>
        LET status == flow.reply.status
            body == flow.reply.body
        IN  IF status = 402
            THEN /\ flow.error.name \notin {"NoInvoice", "RequestFailed"}
                 /\ flow.invoice = IF body.kind = "accepts" /\ body.accepts # <<>>
                                   THEN Head(body.accepts)
                                   ELSE body.own
            ELSE /\ flow.pc = "rejected"
                 /\ flow.error = IF status = 0
                                 THEN Failure("RequestFailed", 0, NoBody)
                                 ELSE Failure("NoInvoice", status, body)
                 /\ flow.invoice = Blank
                 /\ Len(reqs) = 1
                 /\ PaidRequests = {}
                 /\ flow.header = NoHeader

C16_Witness ==
    /\ flow.reply.of = "invoice"
    /\ flow.reply.status = 402
    /\ flow.reply.body.kind = "accepts"
    /\ Len(flow.reply.body.accepts) = 2
    /\ flow.invoice = flow.reply.body.accepts[1]
    /\ flow.pc = "build"
    /\ flow.op = "extract"

\* C17: a paid request succeeds exactly when the status is 200, and then
\* returns the body; on any other status the operation fails with an error
\* that carries the status and the body, and the token, the manager and the
\* sockets of the client are as they were.
C17_PaidOnly200 ==
    [][ (flow.pc = "paid" /\ flow'.pc # "paid") =>
          LET status == flow'.reply.status
              body == flow'.reply.body
          IN  IF status = 200
              THEN /\ flow'.pc = "returned"
                   /\ flow'.result = body
                   /\ flow'.error = NoError
                   /\ flow.op \in {"connect", "extend"} =>
                         currentToken' = body.access_token
              ELSE /\ flow'.pc = "rejected"
                   /\ flow'.error = IF status = 0
                                    THEN Failure("RequestFailed", 0, NoBody)
                                    ELSE Failure("PaymentFailed", status, body)
                   /\ flow'.result = NoBody
                   /\ UNCHANGED <<currentToken, wsManager, managers, sockets,
                                  isRunning>> ]_vars

C17_Witness ==
    /\ flow.reply.of = "paid"
    /\ flow.reply.status = 402
    /\ flow.op = "extend"
    /\ flow.pc = "rejected"
    /\ currentToken = flow.token
    /\ currentToken # 0
    /\ managers[wsManager].accessToken = currentToken

\* C18: a paid request is the invoice request of its operation (the same
\* endpoint, duration_min, url, network and session header) with the payment
\* header added.
C18_SameLogicalRequest ==
    \A k \in PaidRequests : [reqs[k] EXCEPT !.payment = NoHeader] = reqs[1]

\* the numbers the amounts of the invoices denote
AmountValue(text) == IF text = <<7>> THEN 7 ELSE 120

\* C19: the transaction in the payment header has one transfer instruction;
\* it moves the invoice's maxAmountRequired, unchanged, of the invoice's
\* asset (of the default mint when the invoice names none) from the payer's
\* associated account to that of the invoice's payTo.
C19_ExactAmount ==
    flow.header # NoHeader =>
        LET tx == headerTx(flow.header)
            accepts == flow.invoice
            transfers == {k \in 1..Len(tx.instructions) :
                             tx.instructions[k].kind = "transferChecked"}
            t == tx.instructions[Len(tx.instructions)]
            mint == IF accepts.asset = None THEN "MintUSDC" ELSE accepts.asset
        IN  /\ transfers = {Len(tx.instructions)}
            /\ t.amount = AmountValue(accepts.maxAmountRequired)
            /\ t.mint = mint
            /\ t.destination.owner = accepts.payTo
            /\ t.destination.mint = mint
            /\ t.source.owner = "Payer"
            /\ t.source.mint = mint
            /\ t.owner = "Payer"
            /\ \E k \in PaidRequests : reqs[k].payment = flow.header

C19_Witness ==
    /\ flow.header # NoHeader
    /\ flow.invoice.maxAmountRequired = <<1, 2, 0>>
    /\ flow.invoice.asset = None
    /\ headerTx(flow.header).instructions[3].kind = "transferChecked"
    /\ headerTx(flow.header).instructions[3].decimals = 9
    /\ headerTx(flow.header).instructions[3].amount = 120

\* C20: the first instruction of every transaction buildExactPaymentTx
\* returns sets the compute unit limit and the second the compute unit
\* price, with or without an instruction that creates the destination account.
C20_ComputeBudgetFirst ==
    flow.header # NoHeader =>
        LET ins == headerTx(flow.header).instructions IN
        /\ Len(ins) \in {3, 4}
        /\ ins[1] = [kind |-> "setComputeUnitLimit", units |-> 40000]
        /\ ins[2] = [kind |-> "setComputeUnitPrice", microLamports |-> 1]
        /\ \A k \in 3..Len(ins) :
              ins[k].kind \in {"createAssociatedTokenAccount", "transferChecked"}

C20_Witness ==
    /\ flow.header # NoHeader
    /\ Len(headerTx(flow.header).instructions) = 4
    /\ headerTx(flow.header).instructions[3].kind = "createAssociatedTokenAccount"

\* the transaction the operation in progress has built, NoTx if none
builtTx ==
    IF flow.op = "build" THEN flow.tx
    ELSE IF flow.op = None THEN NoTx
    ELSE headerTx(flow.header)

\* [limit, price, transfer] or [limit, price, create-destination, transfer],
\* the creation funded and signed by the fee payer and not by the payer
ExactSequence(tx) ==
    LET ins == tx.instructions
        n == Len(ins)
    IN  /\ n \in {3, 4}
        /\ ins[1] = setComputeUnitLimit
        /\ ins[2] = setComputeUnitPrice
        /\ ins[n].kind = "transferChecked"
        /\ n = 4 =>
              /\ ins[3].kind = "createAssociatedTokenAccount"
              /\ ins[3].keys[1] = [pubkey |-> tx.payerKey, isSigner |-> TRUE,
                                   isWritable |-> TRUE]
              /\ ins[3].keys[1].pubkey # ins[4].owner
              /\ ins[3].keys[2].pubkey = ins[4].destination

\* C21: the instructions buildExactPaymentTx returns are exactly limit, price,
\* transfer or limit, price, create-destination, transfer; the creation is
\* there if and only if createRecipientATAIfMissing is set and the destination
\* account does not exist, it is funded by the fee payer, and the transfer is
\* last.
C21_ExactSequence ==
    /\ builtTx # NoTx => ExactSequence(builtTx)
    /\ (flow.op = "build" /\ flow.pc = "returned") =>
          /\ flow.tx # NoTx
          /\ Len(flow.tx.instructions) = 4 <=>
                (flow.args.createRecipientATAIfMissing /\ ~flow.ledger.destAta)

C21_Witness ==
    /\ flow.op = "build"
    /\ flow.pc = "returned"
    /\ flow.args.createRecipientATAIfMissing
    /\ ~flow.ledger.destAta
    /\ Len(flow.tx.instructions) = 4
    /\ flow.tx.instructions[3].keys[1].pubkey = flow.args.feePayerPublicKey

\* the account an instruction creates belongs to the payer
CreatesSource(in) ==
    /\ in.kind = "createAssociatedTokenAccount"
    /\ in.keys[2].pubkey.owner = payerPublicKey

\* C22: without a token account of the payer buildExactPaymentTx throws
\* MissingSourceAccount, whatever createRecipientATAIfMissing is: it returns
\* no transaction, no instruction ever creates the payer's account, and the
\* client whose build failed so submits no payment header.
C22_MissingSourceAccount ==
    /\ \A k \in 1..Len(builtTx.instructions) :
          ~CreatesSource(builtTx.instructions[k])
    /\ (flow.op = "build" /\ flow.pc \in {"returned", "rejected"}) =>
          IF flow.ledger.sourceAta
          THEN flow.pc = "returned" /\ flow.error = Failure(None, 0, NoBody)
          ELSE /\ flow.pc = "rejected"
               /\ flow.error = Failure("MissingSourceAccount", 0, NoBody)
               /\ flow.tx = NoTx
    /\ (flow.op \in {"connect", "extend", "extract"}
          /\ reqs # <<>>
          /\ reqs[Len(reqs)] = Rpc("getAccountInfo(sourceAta)")) =>
          /\ flow.pc = "rejected"
          /\ flow.error = Failure("MissingSourceAccount", 0, NoBody)
          /\ flow.header = NoHeader
          /\ \A k \in 1..Len(reqs) : reqs[k].payment = NoHeader

C22_Witness ==
    /\ flow.op = "build"
    /\ flow.pc = "rejected"
    /\ flow.args.createRecipientATAIfMissing
    /\ ~flow.ledger.sourceAta
    /\ ~flow.ledger.destAta
    /\ flow.error.name = "MissingSourceAccount"

\* an outcome is tagged success with data, or failure with the error
Tagged(o) ==
    IF o.success
    THEN o.data # NoBody /\ o.error = NoError
    ELSE o.data = NoBody /\ o.error # NoError

\* C23: batchExtract on a non-empty list handles the targets one after
\* another, is never rejected because a target failed, and returns one
\* outcome per target, in the order of the targets, each tagged success with
\* the data or failure with the error.
C23_BatchSequential ==
    /\ batch.pc = "rejected" => batch.urls = <<>>
    /\ \A k \in 1..Len(batch.results) :
          batch.results[k].url = batch.urls[k] /\ Tagged(batch.results[k])
    /\ batch.pc = "await" =>
          /\ batch.i \in 1..Len(batch.urls)
          /\ Len(batch.results) = batch.i - 1
          /\ flow.n = batch.i
          /\ flow.url = batch.urls[batch.i]
          /\ \A k \in 1..Len(reqs) :
                reqs[k].host = "server" =>
                    reqs[k].url = encodeURIComponent(batch.urls[batch.i])
    /\ batch.pc = "returned" =>
          /\ batch.urls # <<>>
          /\ Len(batch.results) = Len(batch.urls)
          /\ flow.n > 0 =>
                LET last == batch.results[Len(batch.results)] IN
                /\ flow.pc \in {"returned", "rejected"}
                /\ last.success = (flow.pc = "returned")
                /\ last.data = flow.result
                /\ last.error = flow.error
          /\ flow.n = 0 =>
                \A k \in 1..Len(batch.results) :
                    batch.results[k].error = Failure("InvalidType", 0, NoBody)

\* a batch of two different targets has returned: the first failed, the
\* second succeeded
C23_Witness ==
    /\ batch.pc = "returned"
    /\ Len(batch.urls) = 2
    /\ batch.urls[1] # batch.urls[2]
    /\ ~batch.results[1].success
    /\ batch.results[2].success

\* C24: when an event is emitted and one of its handlers throws, every
\* handler registered for the event is still called, in the order of
\* registration, and no exception leaves emit.
C24_ObserverIsolation ==
    /\ delivered.calls = delivered.registered
    /\ ~delivered.thrown

\* the handler registered first throws and the one registered after it is
\* called all the same
C24_Witness ==
    /\ delivered.event = "message"
    /\ Len(delivered.registered) = 2
    /\ delivered.registered[1].throws
    /\ ~delivered.registered[2].throws
    /\ delivered.calls[2] = delivered.registered[2]

\* the forward has failed: the formatter threw, the request threw, or the
\* webhook answered outside 200..299
ForwardFailed(fw) ==
    fw.pc = "done" /\ (fw.status = 0 \/ fw.status \notin 200..299)

\* C25: with a webhook configured, a content message whose forwarding fails
\* (the formatter throws, the request throws, or the status is outside
\* 200..299) gives 'webhookError' and then 'message', both for that message,
\* and the stream is left as it was, so that later messages are handled.
C25_WebhookFailureIsolated ==
    [][ \A f \in 1..Len(forwards') :
          ((f > Len(forwards) \/ forwards[f].pc # "done")
              /\ ForwardFailed(forwards'[f])) =>
            /\ forwards'[f].emits =
                  <<[event |-> "webhookError", msg |-> forwards'[f].msg],
                    [event |-> "message", msg |-> forwards'[f].msg]>>
            /\ emitted' = <<"webhookError", "message">>
            /\ UNCHANGED <<sockets, isRunning, wsManager, managers,
                           currentToken, cycles>> ]_vars

\* after a forward that the webhook refused, a later message was forwarded
C25_Witness ==
    /\ Len(forwards) = 2
    /\ forwards[1].status = 302
    /\ ForwardFailed(forwards[1])
    /\ forwards[2].pc = "done"
    /\ emitted = <<"webhookSuccess", "message">>

\* the attempt of cycle c that was awaited before the step has failed in it
AttemptFailedNow(c) ==
    /\ cycles[c].pc \in {"invoice", "pay"}
    /\ cycles'[c] # cycles[c]
    /\ ~(cycles[c].pc = "invoice" /\ cycles'[c].pc = "pay")
    /\ ~cycles'[c].extended

\* C26: a failed attempt that is not the last emits neither
\* 'sessionRenewalFailed' nor 'error' and the cycle waits for its next
\* attempt; the failure of the last attempt emits 'sessionRenewalFailed' and
\* the cycle ends normally: extendSessionWithRetry never rejects.
C26_SurfaceAfterExhaustion ==
    [][ \A c \in CycleIds :
          AttemptFailedNow(c) =>
            IF cycles[c].attempt = retryAttempts
            THEN emitted' = <<"sessionRenewalFailed">> /\ cycles'[c].pc = "done"
            ELSE emitted' = <<>> /\ cycles'[c].pc = "wait" ]_vars

\* the first of several attempts has just failed
C26_Witness ==
    \E c \in CycleIds :
        /\ cycles[c].pc = "wait"
        /\ cycles[c].attempt = 1
        /\ retryAttempts > 1
        /\ cycles[c].failedEmits = 0
        /\ emitted = <<>>

\* C27: the retry policy does not look at the classification of the error:
\* two cycles that stand at the same place after the same number of failed
\* attempts have made the same attempts, waited the same delays and emitted
\* the same events, however their failures were classified.
C27_PolicyIgnoresClass ==
    \A c, d \in CycleIds :
        (/\ cycles[c].pc = cycles[d].pc
         /\ cycles[c].extended = cycles[d].extended
         /\ Len(cycles[c].classes) = Len(cycles[d].classes)) =>
            /\ cycles[c].tries = cycles[d].tries
            /\ cycles[c].attempt = cycles[d].attempt
            /\ cycles[c].waits = cycles[d].waits
            /\ cycles[c].retryDelay = cycles[d].retryDelay
            /\ cycles[c].failedEmits = cycles[d].failedEmits

\* two cycles have given up after two failures each, the failures of the one
\* all facilitator-like, those of the other all generic
C27_Witness ==
    \E c, d \in CycleIds :
        /\ cycles[c].pc = "done" /\ cycles[d].pc = "done"
        /\ cycles[c].classes = <<TRUE, TRUE>>
        /\ cycles[d].classes = <<FALSE, FALSE>>
        /\ cycles[c].waits = cycles[d].waits
        /\ cycles[c].failedEmits = 1 /\ cycles[d].failedEmits = 1

\* C28: while a renewal cycle is suspended in a backoff wait or in an HTTP
\* call, a content message on an open connection can be delivered at once:
\* the delivery is enabled, it calls the 'message' handlers and it leaves
\* every renewal cycle where it is.
C28_DeliveryDuringRenewal ==
    \A s \in SocketIds :
        (suspended /\ sockets[s].readyState = "OPEN" /\ webhook.url = "none") =>
            ENABLED (/\ SocketMessage(s, "content")
                     /\ emitted' = <<"message">>
                     /\ cycles' = cycles)

\* a content message has just been delivered on an open connection while a
\* renewal cycle sits in its backoff wait
C28_Witness ==
    /\ \E c \in CycleIds : cycles[c].pc = "wait"
    /\ \E s \in SocketIds : sockets[s].readyState = "OPEN"
    /\ emitted = <<"message">>
    /\ wsEmitted = <<"message">>

\* the requests of the operation in progress that carry a payment header
Paying == {k \in 1..Len(reqs) : reqs[k].payment # NoHeader}

\* C30: while a paid request is in flight (of start, of a renewal attempt,
\* first or retried, or of an extraction), the invoice it pays was obtained by
\* an invoice request of the same attempt, made first and without payment;
\* its header was made in the same attempt, carries a transaction signed
\* once, by the payer, and is carried by the last request of the attempt and
\* by no other.
C30_FreshPerAttempt ==
    flow.pc = "paid" =>
        /\ flow.invoiceBy = flow.n
        /\ flow.headerBy = flow.n
        /\ Len(reqs) >= 2
        /\ reqs[1].host = "server" /\ reqs[1].payment = NoHeader
        /\ reqs[1].path = reqs[Len(reqs)].path
        /\ Paying = {Len(reqs)}
        /\ reqs[Len(reqs)].payment = flow.header
        /\ headerTx(flow.header).signatures = <<payerPublicKey>>

\* the paid request of a retried renewal attempt is in flight: it is the third
\* operation of the client, after start() and the failed first attempt
C30_Witness ==
    /\ flow.pc = "paid"
    /\ flow.op = "extend"
    /\ flow.n = 3
    /\ cycles[flow.id].attempt = 2
    /\ cycles[flow.id].waits = <<BaseDelay>>

\* the requests of the operation in progress sent to the extend endpoint
Extends == {k \in 1..Len(reqs) : reqs[k].path = <<"extend">>}

\* C29: every request to the extend endpoint carries as X-SESSION the token
\* the client held when the attempt started, which is the one its first
\* request was given, and no other request carries a session reference.
C29_SessionReference ==
    /\ \A k \in 1..Len(reqs) : k \notin Extends => reqs[k].session = 0
    /\ \A k \in Extends : reqs[k].session = reqs[1].session

\* the POSTs of the operation in progress to the diffbot endpoint
DiffbotPosts == {k \in 1..Len(reqs) : reqs[k].path[1] = "diffbot"}

\* the errors _extract throws before its try block
ValidationErrors == {"InvalidInput", "MissingWallet", "InvalidType"}

\* C31: an extraction that has returned made, in this order, the invoice
\* request for its kind and url, at most one fee-payer lookup, the RPC calls
\* of the build, and the paid request; exactly the first and the last are
\* POSTs to the diffbot endpoint, the first without and the last with the
\* payment header, whose transaction the payer has signed; it returned the
\* body of the paid reply and emitted 'extraction'.  An extraction that has
\* failed after the validation of its input emitted 'error', holds the error
\* of the step that failed, has no result, and made no request after that
\* step.
C31_ExtractionSequence ==
    flow.op = "extract" =>
        /\ flow.pc = "returned" =>
              /\ Len(reqs) >= 2
              /\ reqs[1] = DiffbotRequest(flow.type, flow.url, setup.network,
                                          NoHeader)
              /\ reqs[Len(reqs)] = DiffbotRequest(flow.type, flow.url,
                                                  setup.network, flow.header)
              /\ flow.header # NoHeader
              /\ headerTx(flow.header).signatures = <<payerPublicKey>>
              /\ DiffbotPosts = {1, Len(reqs)}
              /\ \A k \in 2..(Len(reqs) - 1) :
                    \/ reqs[k] = SupportedRequest /\ k = 2
                    \/ reqs[k].host = "solanaRpc"
              /\ \E k \in 2..(Len(reqs) - 1) : reqs[k].host = "solanaRpc"
              /\ flow.reply = Reply("paid", PaidStatus, flow.result)
              /\ flow.error = NoError
              /\ emitted = <<"extraction">>
        /\ (flow.pc = "rejected" /\ flow.error.name \notin ValidationErrors) =>
              /\ emitted = <<"error">>
              /\ flow.result = NoBody
              /\ flow.error # NoError
              /\ reqs # <<>>
              /\ flow.reply.of = "invoice" => reqs = <<reqs[1]>>
              /\ flow.reply.of = "supported" => reqs = <<reqs[1], SupportedRequest>>
              /\ flow.reply.of # "paid" => DiffbotPosts = {1}
              /\ flow.reply.of = "paid" =>
                    /\ DiffbotPosts = {1, Len(reqs)}
                    /\ flow.error.name \in {"PaymentFailed", "RequestFailed"}
        /\ (flow.pc = "rejected" /\ flow.error.name \in ValidationErrors) =>
              reqs = <<>> /\ emitted = <<>>

\* an extraction has returned after asking the facilitator for the fee payer
C31_Witness ==
    /\ flow.op = "extract"
    /\ flow.pc = "returned"
    /\ reqs[2] = SupportedRequest
    /\ emitted = <<"extraction">>

\* the step is the 'error' event of a socket that was still connecting
ConnectFails(s) ==
    /\ s \in DOMAIN sockets
    /\ sockets[s].readyState = "CONNECTING"
    /\ sockets'[s].readyState = "ABORTING"
    /\ wsEmitted' = <<"error">>

\* the step is the failure of the invoice request or of the payment of start() i
StartFails(i) == starts[i] \in {"invoice", "pay"} /\ starts'[i] = "rejected"

MessageEmits(fw) ==
    Cardinality({k \in 1..Len(fw.emits) : fw.emits[k].event = "message"})

\* the step is the arrival of a message
Arrives == received'.handled /\ wsEmitted' = <<"message">>

\* C33: getMessageType gives 'twitter' whenever the message has a body,
\* 'article' when it has a source and no body, and 'unknown' when it has
\* neither; and a message that is not a control message and classifies as
\* 'unknown' is emitted as 'message' once: in the step of its arrival when
\* there is no webhook, else by its forward, which emits it once when it is
\* over and not before.
C33_UnknownIsDelivered ==
    [][ Arrives =>
          LET m == received' IN
          /\ m.body => getMessageType(m) = "twitter"
          /\ (m.source /\ ~m.body) => getMessageType(m) = "article"
          /\ (~m.source /\ ~m.body) => getMessageType(m) = "unknown"
          /\ (getMessageType(m) = "unknown" /\ m.type = "none"
                /\ m.status = "none") =>
                IF webhook.url = "none"
                THEN emitted' = <<"message">> /\ forwards' = forwards
                ELSE /\ Len(forwards') = Len(forwards) + 1
                     /\ emitted' = names(forwards'[Len(forwards')])
                     /\ \A f \in 1..Len(forwards') :
                           MessageEmits(forwards'[f]) =
                              IF forwards'[f].pc = "done" THEN 1 ELSE 0 ]_vars

\* a message with no type, no status, no body and no source has just been
\* emitted as 'message' by a client without a webhook
C33_Witness ==
    /\ received = [NoMessage EXCEPT !.handled = TRUE]
    /\ getMessageType(received) = "unknown"
    /\ webhook.url = "none"
    /\ emitted = <<"message">>

\* C34: a header that has been built and read back: base64-decoding and
\* parsing it gives x402Version 1, scheme 'exact', network 'solana' and a
\* payload whose transaction, base64-decoded, is the serialized signed
\* transaction byte for byte; and each of the three flows builds the header
\* the other two build from the same bytes.
C34_HeaderRoundTrip ==
    /\ flow.pc = "decoded" =>
          /\ flow.x402.x402Version = 1
          /\ flow.x402.scheme = Exact
          /\ flow.x402.network = Solana
          /\ DOMAIN flow.x402 = {"x402Version", "scheme", "network", "payload"}
          /\ DOMAIN flow.x402.payload = {"transaction"}
          /\ fromBase64(flow.x402.payload.transaction) = flow.signed
          /\ flow.bytes = flow.signed
    /\ flow.pc \in {"encoded", "decoded"} =>
          /\ flow.header = payInvoiceHeader(flow.signed)
          /\ flow.header = extendSessionHeader(flow.signed)
          /\ flow.header = diffbotHeader(flow.signed)

\* the header of an extraction, built from four bytes (a full group and a
\* padded one), has been read back
C34_Witness ==
    /\ flow.pc = "decoded"
    /\ flow.op = "extract"
    /\ flow.signed = <<255, 0, 77, 1>>
    /\ flow.bytes = <<255, 0, 77, 1>>

\* the step is the call of start() i
StartCalled(i) == starts[i] = "idle" /\ starts'[i] # "idle"

\* C35: a call of start() made while isRunning is true returns at once: it
\* issues no request, emits nothing, and leaves currentToken, wsManager,
\* isRunning, the managers, the sockets and the renewal cycles as they
\* were; and the isRunning check comes before the wallet check, so that a
\* running client without a wallet returns instead of throwing.
C35_StartWhileRunning ==
    [][ /\ \A i \in StartIds :
             (StartCalled(i) /\ isRunning) =>
                 /\ starts'[i] = "noop"
                 /\ flow'.pc = "noop"
                 /\ flow'.error = NoError
                 /\ reqs' = <<>>
                 /\ emitted' = <<>>
                 /\ wsEmitted' = <<>>
                 /\ UNCHANGED <<currentToken, wsManager, isRunning, managers,
                                sockets, cycles, nextToken>>
        /\ startChecks(TRUE, FALSE) = "noop"
        /\ startChecks(TRUE, TRUE) = "noop" ]_vars

\* start() has been called on a running client and has returned at once
C35_Witness ==
    /\ isRunning
    /\ starts = <<"done", "noop">>
    /\ flow.op = "connect" /\ flow.pc = "noop"
    /\ reqs = <<>>
    /\ emitted = <<>>

Control(m) ==
    m.type \in {"expiry_soon", "session_extended"} \/ m.status = "connected"

\* a forward that is over has emitted the outcome of the forwarding and then
\* 'message', both for its message; one that is not over has emitted nothing
ForwardThenMessage(fw) ==
    IF fw.pc = "done"
    THEN /\ Len(fw.emits) = 2
         /\ fw.emits[1].event \in {"webhookSuccess", "webhookError"}
         /\ fw.emits[2] = [event |-> "message", msg |-> fw.msg]
    ELSE fw.emits = <<>>

\* C37: a control message (type 'expiry_soon', type 'session_extended' or
\* status 'connected'), whatever else it holds, is not forwarded to the
\* webhook and is not emitted as 'message'.  Every other message is emitted
\* as 'message' once: at once when no webhook is configured, and otherwise
\* by its forward, after the outcome of the forwarding and not before the
\* forwarding is over.
C37_ControlIsNotContent ==
    [][ /\ Arrives =>
             LET m == received' IN
             IF Control(m)
             THEN /\ \A k \in 1..Len(emitted') : emitted'[k] # "message"
                  /\ forwards' = forwards
             ELSE IF webhook.url = "none"
             THEN emitted' = <<"message">> /\ forwards' = forwards
             ELSE /\ Len(forwards') = Len(forwards) + 1
                  /\ \A f \in 1..Len(forwards) : forwards'[f] = forwards[f]
                  /\ emitted' = names(forwards'[Len(forwards')])
        /\ \A f \in 1..Len(forwards') : ForwardThenMessage(forwards'[f])
        /\ \A f \in 1..Len(forwards) :
             forwards'[f] # forwards[f] =>
                 /\ forwards[f].pc = "post" /\ forwards'[f].pc = "done"
                 /\ emitted' = names(forwards'[f])
                 /\ received' = received ]_vars

\* a renewal acknowledgement that also holds a body and a source has just
\* been handled by a client with a webhook: nothing was forwarded
C37_Witness ==
    /\ webhook.url = "hook"
    /\ received.handled
    /\ received.type = "session_extended"
    /\ received.body /\ received.source
    /\ emitted = <<"sessionExtended">>
    /\ forwards = <<>>

\* the cycle has had exactly one outcome: 'sessionRenewed' once and no
\* 'sessionRenewalFailed', or 'sessionRenewalFailed' once and no renewal
Outcome(c) ==
    \/ cycles[c].extended /\ cycles[c].failedEmits = 0
    \/ ~cycles[c].extended /\ cycles[c].failedEmits = 1

\* C38: when no call and no timer of it is pending for ever, a renewal cycle
\* that has started finishes; when it has finished it has emitted exactly
\* one of 'sessionRenewed' and 'sessionRenewalFailed'; while it runs it has
\* emitted neither; and once finished it does nothing more.
C38_CycleTerminates ==
    /\ \A c \in CycleIds : CycleInFlight(c) ~> (cycles[c].pc = "done")
    /\ [](\A c \in CycleIds :
            /\ cycles[c].pc = "done" => Outcome(c)
            /\ CycleInFlight(c) =>
                  ~cycles[c].extended /\ cycles[c].failedEmits = 0)
    /\ [][\A c \in CycleIds :
            cycles[c].pc = "done" => cycles'[c] = cycles[c]]_vars

\* a cycle has finished renewed at its second attempt, after one failure
\* and one backoff
C38_Witness ==
    \E c \in CycleIds :
        /\ cycles[c].pc = "done"
        /\ cycles[c].extended
        /\ cycles[c].failedEmits = 0
        /\ cycles[c].attempt = 2
        /\ Len(cycles[c].waits) = 1

\* a renewal attempt of some cycle fails in this step
AttemptFails ==
    \E c \in CycleIds : Len(cycles'[c].classes) = Len(cycles[c].classes) + 1

\* C39: whenever the client holds a WebSocketManager, the manager's
\* accessToken is the client's currentToken; and a step in which a renewal
\* attempt fails changes neither currentToken nor any manager's accessToken.
C39_TokenConsistency ==
    /\ [](wsManager # 0 => managers[wsManager].accessToken = currentToken)
    /\ [][AttemptFails =>
            /\ currentToken' = currentToken
            /\ \A m \in StartIds :
                  managers'[m].accessToken = managers[m].accessToken]_vars

\* the client holds a manager, a renewal cycle has failed once and then
\* replaced the token, and manager and client hold the new token
C39_Witness ==
    /\ wsManager # 0
    /\ managers[wsManager].accessToken = currentToken
    /\ currentToken > 1
    /\ \E c \in CycleIds :
          /\ cycles[c].extended
          /\ Len(cycles[c].classes) > 0

\* a renewal cycle issues a request in this step: the extend-invoice
\* request (getExtendInvoice) or the paid request (extendSession)
CycleRequests ==
    \E c \in CycleIds :
        /\ cycles'[c].pc \in {"invoice", "pay"}
        /\ cycles'[c].pc # cycles[c].pc

\* C40: the step that follows the return of stop() issues no extend-invoice
\* and no paid request of a renewal cycle and emits neither 'message' nor
\* 'sessionRenewed'.
C40_QuietAfterStop ==
    [][emitted = <<"stopped">> =>
          /\ ~CycleRequests
          /\ \A k \in 1..Len(emitted') :
                emitted'[k] \notin {"message", "sessionRenewed"}]_vars
====
